---------------------------- MODULE Spec2Model ----------------------------
(***************************************************************************)
(* A model of the vquery JSON-to-SQL compiler (services/api/app):          *)
(*   - models/common.py : Alias / Query rows, the Redis cache-aside fetch  *)
(*                        and Query.scalarize;                             *)
(*   - models/sql.py    : the Input -> Resolved expression/clause/query    *)
(*                        compiler and its SQL renderer.                   *)
(* SQL text is a sequence of one-character strings, so that stripping,     *)
(* concatenation and the LIMIT regular expression are computed on the      *)
(* characters as the Python code computes them.                            *)
(* An exception is identified by the name written at its raise site        *)
(* (exc._ImproperAggregateUse, exc._AliasNotExists, ...).  The names       *)
(* raised by models/common.py and models/sql.py are not defined in         *)
(* utils/exceptions.py: evaluating the raise statement fails at that site  *)
(* with an error carrying the name, so the operation fails there either    *)
(* way and the name tells which site.                                      *)
(***************************************************************************)
EXTENDS Integers, Sequences, FiniteSets, TLC

VARIABLES
    redis,      \* the Redis cache: a function from the keys present to their values
    aliases,    \* rows of table __aliases__
    queries,    \* rows of table __queries__
    pc,         \* "idle": no request in progress, "done": a request has produced its outcome
    result      \* the outcome of the last request

vars == <<redis, aliases, queries, pc, result>>

NoResult == [op |-> "none"]

---------------------------------------------------------------------------
(* Text                                                                    *)

SP == <<" ">>

\* the SQL keywords the renderer writes and Query.scalarize searches for
KW ==
    [select |-> <<"S", "E", "L", "E", "C", "T">>,
     from |-> <<"F", "R", "O", "M">>,
     as |-> <<"A", "S">>,
     not |-> <<"N", "O", "T">>,
     between |-> <<"B", "E", "T", "W", "E", "E", "N">>,
     and |-> <<"A", "N", "D">>,
     or |-> <<"O", "R">>,
     is_null |-> <<"I", "S", " ", "N", "U", "L", "L">>,
     in |-> <<"I", "N">>,
     case |-> <<"C", "A", "S", "E">>,
     when |-> <<"W", "H", "E", "N">>,
     then |-> <<"T", "H", "E", "N">>,
     else |-> <<"E", "L", "S", "E">>,
     end |-> <<"E", "N", "D">>,
     interval |-> <<"I", "N", "T", "E", "R", "V", "A", "L">>,
     join |-> <<"J", "O", "I", "N">>,
     on |-> <<"O", "N">>,
     where |-> <<"W", "H", "E", "R", "E">>,
     having |-> <<"H", "A", "V", "I", "N", "G">>,
     order_by |-> <<"O", "R", "D", "E", "R", " ", "B", "Y">>,
     group_by |-> <<"G", "R", "O", "U", "P", " ", "B", "Y">>,
     limit |-> <<"L", "I", "M", "I", "T">>,
     offset |-> <<"O", "F", "F", "S", "E", "T">>]
KW_LIMIT_1 == SP \o KW.limit \o SP \o <<"1">>

WhiteSpace == {" ", "\n", "\t"}
Digits == {"0", "1", "2", "3", "4", "5", "6", "7", "8", "9"}

DigitVal(c) ==
    CASE c = "0" -> 0 [] c = "1" -> 1 [] c = "2" -> 2 [] c = "3" -> 3 [] c = "4" -> 4
      [] c = "5" -> 5 [] c = "6" -> 6 [] c = "7" -> 7 [] c = "8" -> 8 [] c = "9" -> 9

\* re.IGNORECASE: the letters of the two keywords compare equal in either case
Upper(c) ==
    CASE c = "l" -> "L" [] c = "i" -> "I" [] c = "m" -> "M" [] c = "t" -> "T"
      [] c = "o" -> "O" [] c = "f" -> "F" [] c = "s" -> "S" [] c = "e" -> "E"
      [] OTHER -> c

\* str.rstrip(ch): every trailing occurrence of ch is removed
RECURSIVE RStrip(_, _)
RStrip(s, ch) ==
    IF Len(s) > 0 /\ s[Len(s)] = ch THEN RStrip(SubSeq(s, 1, Len(s) - 1), ch) ELSE s

\* int(digits)
RECURSIVE ParseInt(_)
ParseInt(ds) ==
    IF ds = <<>> THEN 0
    ELSE 10 * ParseInt(SubSeq(ds, 1, Len(ds) - 1)) + DigitVal(ds[Len(ds)])

\* s[lo..hi] is a non-empty run of characters of class cls
RunOf(s, lo, hi, cls) == lo <= hi /\ hi <= Len(s) /\ \A k \in lo..hi : s[k] \in cls

\* the keyword kw stands at position i of s, in either case
KeywordAt(s, i, kw) ==
    /\ i >= 1
    /\ i + Len(kw) - 1 <= Len(s)
    /\ \A k \in 1..Len(kw) : Upper(s[i + k - 1]) = kw[k]

\* `$` without re.MULTILINE: the end of the string, or just before a final newline
AtEnd(s, p) == p = Len(s) + 1 \/ (p = Len(s) /\ s[p] = "\n")

\* the matches of  LIMIT\s+(\d+)(\s+OFFSET\s+\d+)?$  that start at position i:
\* the pairs <<a, b>> such that group 1 is s[a..b-1]
LimitMatchesAt(s, i) ==
    IF ~KeywordAt(s, i, KW.limit) THEN {}
    ELSE {ab \in (1..Len(s) + 1) \X (1..Len(s) + 1) :
            /\ RunOf(s, i + Len(KW.limit), ab[1] - 1, WhiteSpace)
            /\ RunOf(s, ab[1], ab[2] - 1, Digits)
            /\ \/ AtEnd(s, ab[2])
               \/ \E c \in 1..Len(s) + 1, d \in 1..Len(s) + 1 :
                    /\ RunOf(s, ab[2], c - 1, WhiteSpace)
                    /\ KeywordAt(s, c, KW.offset)
                    /\ RunOf(s, c + Len(KW.offset), d - 1, WhiteSpace)
                    /\ \E e \in 1..Len(s) + 1 : RunOf(s, d, e - 1, Digits) /\ AtEnd(s, e)}

\* re.search: the match at the leftmost starting position, the quantifiers greedy
LimitSearch(s) ==
    LET starts == {i \in 1..Len(s) : LimitMatchesAt(s, i) # {}}
    IN  IF starts = {} THEN [found |-> FALSE, value |-> 0]
        ELSE LET i == CHOOSE x \in starts : \A y \in starts : x <= y
                 ms == LimitMatchesAt(s, i)
                 ab == CHOOSE m \in ms : \A n \in ms : n[2] <= m[2]
             IN  [found |-> TRUE, value |-> ParseInt(SubSeq(s, ab[1], ab[2] - 1))]

---------------------------------------------------------------------------
(* Query.scalarize                                                         *)

is_columnwise_scalar(q) == q.col_count = 1

Fail(kind) == [err |-> kind, sql |-> <<>>]

\* a scalarize that accepts whatever LIMIT the query carries
scalarize_AnyLimit(q) ==
    LET sql == RStrip(q.query_sql, ";")
    IN  IF ~is_columnwise_scalar(q) THEN Fail("_ImpossiblToScalarize")
        ELSE IF LimitSearch(sql).found THEN [err |-> "", sql |-> sql]
        ELSE [err |-> "", sql |-> sql \o KW_LIMIT_1]

\* a scalarize that appends LIMIT 1 to a text that already ends in LIMIT 1
scalarize_AlwaysAppend(q) ==
    LET sql == RStrip(q.query_sql, ";")
    IN  IF ~is_columnwise_scalar(q) THEN Fail("_ImpossiblToScalarize")
        ELSE IF LimitSearch(sql).found /\ LimitSearch(sql).value # 1
        THEN Fail("_ImpossiblToScalarize")
        ELSE [err |-> "", sql |-> sql \o KW_LIMIT_1]

scalarize(q) ==
    LET sql == RStrip(q.query_sql, ";")
    IN  IF ~is_columnwise_scalar(q) THEN Fail("_ImpossiblToScalarize")
        ELSE LET limit_match == LimitSearch(sql)
             IN  IF limit_match.found
                 THEN IF limit_match.value # 1 THEN Fail("_ImpossiblToScalarize")
                      ELSE [err |-> "", sql |-> sql]
                 ELSE [err |-> "", sql |-> sql \o KW_LIMIT_1]

---------------------------------------------------------------------------
(* The stored rows                                                         *)

Users == {1, 2}

\* the backtick character
BQ == "BACKTICK"
TABLE_O == <<BQ, "o", BQ>>
COL_OX == <<BQ, "o", BQ, ".", BQ, "x", BQ>>
COL_PY == <<BQ, "p", BQ, ".", BQ, "y", BQ>>
SQL_ONE_COL == KW.select \o SP \o COL_OX \o SP \o KW.from \o SP \o TABLE_O \o <<";">>
SQL_TWO_COLS ==
    KW.select \o SP \o COL_OX \o <<",", " ">> \o COL_OX \o SP \o KW.from \o SP \o TABLE_O \o <<";">>

\* class Alias(SQLModel, table=True)
AliasRow(id, owner, name, target, isTable, isAgg) ==
    [alias_id |-> id, owner_id |-> owner, alias |-> name, target |-> target,
     is_table |-> isTable, is_aggregate |-> isAgg]

\* class Query(SQLModel, table=True)
QueryRow(id, owner, name, sql, names, count) ==
    [query_id |-> id, owner_id |-> owner, name |-> name, query_sql |-> sql,
     col_names |-> names, col_count |-> count]

\* user 1 owns a table alias, a column alias and an aggregate alias; user 2 owns an
\* alias with the same name as user 1's column alias (names are unique per owner only)
AliasRows ==
    { AliasRow(1, 1, <<"t">>, TABLE_O, TRUE, FALSE),
      AliasRow(2, 1, <<"c">>, COL_OX, FALSE, FALSE),
      AliasRow(3, 1, <<"s">>, <<"S", "U", "M", "(">> \o COL_OX \o <<")">>, FALSE, TRUE),
      AliasRow(4, 2, <<"c">>, COL_PY, FALSE, FALSE) }

QueryRows ==
    { QueryRow(1, 1, <<"q">>, SQL_ONE_COL, <<"c">>, 1),
      QueryRow(2, 1, <<"w">>, SQL_TWO_COLS, <<"c", "c">>, 2),
      QueryRow(3, 2, <<"q">>, SQL_ONE_COL, <<"c">>, 1) }

\* the order in which the database returns the rows of a SELECT without ORDER BY
ScanOrders == {"asc", "desc"}

---------------------------------------------------------------------------
(* SQLAlchemy lookups: Alias.by_id / by_name, Query.by_id / by_name        *)

IdField(kind) == IF kind = "alias" THEN "alias_id" ELSE "query_id"
NameField(kind) == IF kind = "alias" THEN "alias" ELSE "name"
Table(kind) == IF kind = "alias" THEN aliases ELSE queries

\* Column == value, a SQLAlchemy BinaryExpression
Eq(col, val) == [col |-> col, val |-> val]
Matches(row, crit) == row[crit.col] = crit.val

\* bool(Column == value): SQLAlchemy compares the two operands themselves, and a
\* column is never the bound value
ClauseBool(crit) == FALSE

\* Python's `a and b` on two clauses: b when a is truthy, else a
PyAnd(a, b) == IF ClauseBool(a) THEN b ELSE a

\* dbsession.scalar(select(T).where(crit)): the first row of the result, or None
Scalar(kind, crit, ord) ==
    LET rows == {row \in Table(kind) : Matches(row, crit)}
        pk == IdField(kind)
    IN  IF rows = {} THEN [found |-> FALSE]
        ELSE [found |-> TRUE,
              row |-> CHOOSE r \in rows : \A o \in rows :
                        IF ord = "asc" THEN r[pk] <= o[pk] ELSE r[pk] >= o[pk]]

by_id(kind, id, owner_id, ord) ==
    Scalar(kind, PyAnd(Eq(IdField(kind), id), Eq("owner_id", owner_id)), ord)

by_name(kind, name, owner_id, ord) ==
    Scalar(kind, PyAnd(Eq(NameField(kind), name), Eq("owner_id", owner_id)), ord)

---------------------------------------------------------------------------
(* The Redis cache                                                         *)

TTL == 3600

\* f"{kind}:id:{id}"
IdPointerKey(kind, id) ==
    [kind |-> kind, dim |-> "id", id |-> id, owner_id |-> 0, name |-> <<>>]
\* f"{kind}:name:{owner_id}:{name}"
NamePointerKey(kind, owner_id, name) ==
    [kind |-> kind, dim |-> "name", id |-> 0, owner_id |-> owner_id, name |-> name]
\* f"{kind}:{id}:{owner_id}:{name}"
RealKey(kind, id, owner_id, name) ==
    [kind |-> kind, dim |-> "real", id |-> id, owner_id |-> owner_id, name |-> name]

\* redis.get(key) is truthy
Cached(r, key) == key \in DOMAIN r
\* redis.set(key, value, ex=ex): the key lives ex seconds from now; age is the time
\* since it was set
RedisSet(r, key, value, ex) ==
    [k \in DOMAIN r \cup {key} |->
        IF k = key THEN [val |-> value, ex |-> ex, age |-> 0] ELSE r[k]]

\* d seconds pass: the keys that have lived their ex seconds are gone
RedisAfter(r, d) ==
    [k \in {x \in DOMAIN r : r[x].age + d < r[x].ex} |-> [r[k] EXCEPT !.age = @ + d]]

\* model_dump_json / model_validate_json: the fields of the row, in declaration order
DumpJson(kind, row) ==
    IF kind = "alias"
    THEN <<row.alias_id, row.owner_id, row.alias, row.target, row.is_table, row.is_aggregate>>
    ELSE <<row.query_id, row.owner_id, row.name, row.query_sql, row.col_names, row.col_count>>
ValidateJson(kind, j) ==
    IF kind = "alias"
    THEN AliasRow(j[1], j[2], j[3], j[4], j[5], j[6])
    ELSE QueryRow(j[1], j[2], j[3], j[4], j[5], j[6])

NotExists(kind) == IF kind = "alias" THEN "_AliasNotExists" ELSE "_QueryNotExists"
IncorrectRequest(kind) ==
    IF kind = "alias" THEN "IncorrectAliasFetchRequest" ELSE "IncorrectQueryFetchRequest"

Raise(kind, detail, r) == [err |-> kind, detail |-> detail, redis |-> r]
Return(obj, src, r) == [err |-> "", obj |-> obj, from |-> src, redis |-> r]

\* the object came from the database: cache its JSON under the real key, then set
\* the id pointer and the name pointer, each with ex=3600
CacheAndReturn(kind, row, r) ==
    LET real_key == RealKey(kind, row[IdField(kind)], row.owner_id, row[NameField(kind)])
    IN  Return(row, "store",
               RedisSet(RedisSet(RedisSet(r, real_key, DumpJson(kind, row), TTL),
                                 IdPointerKey(kind, row[IdField(kind)]), real_key, TTL),
                        NamePointerKey(kind, row.owner_id, row[NameField(kind)]), real_key, TTL))

\* the pointer was in the cache, and the JSON under the real key it names too
ReturnCached(kind, obj, user, error_str, r) ==
    IF obj.owner_id = user THEN Return(obj, "cache", r)
    ELSE Raise(NotExists(kind), error_str, r)

\* not in cache: the outcome of the database lookup
ReturnFetched(kind, db, error_str, r) ==
    IF db.found THEN CacheAndReturn(kind, db.row, r)
    ELSE Raise(NotExists(kind), error_str, r)

\* the body of fetch after the choice of pointer_key, db_fetch_coro and error_str;
\* the coroutine db runs only when it is awaited, on a cache miss
FetchVia(kind, pointer_key, db, user, error_str, r) ==
    IF Cached(r, pointer_key) /\ Cached(r, r[pointer_key].val)
    THEN ReturnCached(kind, ValidateJson(kind, r[r[pointer_key].val].val), user, error_str, r)
    ELSE ReturnFetched(kind, db, error_str, r)

\* Alias.fetch / Query.fetch. id = 0 and name = <<>> stand for the falsy arguments
\* (None, 0, ""); the outcome carries the cache as the call leaves it.
Fetch(kind, id, name, user, r, ord) ==
    IF id # 0
    THEN FetchVia(kind, IdPointerKey(kind, id), by_id(kind, id, user, ord), user, "id", r)
    ELSE IF name # <<>>
    THEN FetchVia(kind, NamePointerKey(kind, user, name), by_name(kind, name, user, ord),
                  user, "name", r)
    ELSE Raise(IncorrectRequest(kind), "none", r)

AliasFetch(alias_id, alias_name, user, r, ord) == Fetch("alias", alias_id, alias_name, user, r, ord)
QueryFetch(query_id, query_name, user, r, ord) == Fetch("query", query_id, query_name, user, r, ord)

---------------------------------------------------------------------------
(* models/sql.py: Input nodes (client side)                                *)

None == [type |-> "None"]
AllCols == [type |-> "*"]

LiteralObject(n) == [type |-> "literal", vkind |-> "int", ival |-> n]

\* LiteralObject with a str, a float (whole.tenths) or a bool value
StrLiteral(chars) == [type |-> "literal", vkind |-> "str", sval |-> chars]
FloatLiteral(whole, tenths) == [type |-> "literal", vkind |-> "float", whole |-> whole, tenths |-> tenths]
BoolLiteral(b) == [type |-> "literal", vkind |-> "bool", bval |-> b]

QUOTE == "'"

\* v.replace("'", "''")
RECURSIVE ReplaceQuotes(_)
ReplaceQuotes(v) ==
    IF v = <<>> THEN <<>>
    ELSE (IF Head(v) = QUOTE THEN <<QUOTE, QUOTE>> ELSE <<Head(v)>>) \o ReplaceQuotes(Tail(v))

\* LiteralObject.clean_string (field_validator of value)
clean_string(node) ==
    IF node.vkind = "str" THEN [node EXCEPT !.sval = ReplaceQuotes(node.sval)] ELSE node

\* isinstance(value, cls): bool is a subclass of int
IsInstance(node, cls) ==
    CASE cls = "str" -> node.vkind = "str"
      [] cls = "int" -> node.vkind \in {"int", "bool"}
      [] cls = "float" -> node.vkind = "float"
      [] cls = "bool" -> node.vkind = "bool"
BinaryOperation(l, o, r) == [type |-> "op", left |-> l, operation |-> o, right |-> r]
FunctionCall(f, args) == [type |-> "func", func |-> f, args |-> args]
IntervalExpr(v, u) == [type |-> "interval", value |-> v, unit |-> u]
CaseItem(c, t) == [case |-> c, then |-> t]
CaseExpr(cases, d) == [type |-> "case", cases |-> cases, default |-> d]
TableOperand(t) == [type |-> "table", table |-> t, is_aggregate |-> FALSE]
ColumnOperand(t, c) == [type |-> "col", table |-> t, column |-> c, is_aggregate |-> FALSE]
AliasedExpr(id, name) == [type |-> "aliased", alias_id |-> id, alias_name |-> name]
SelectSubquery(id, name) == [type |-> "subquery", query_id |-> id, query_name |-> name]
NotExpr(b) == [type |-> "not", operand |-> b]
BooleanBinaryExpr(l, o, r) == [type |-> "and_or", left |-> l, bool_op |-> o, right |-> r]
ComparisonExpr(l, o, r) == [type |-> "compare", left |-> l, operator |-> o, right |-> r]
BetweenExpr(e, u, l, n) == [type |-> "between", expr |-> e, upper |-> u, lower |-> l, negate |-> n]
IsNull(e) == [type |-> "isnull", operand |-> e]
InExpr(l, r) == [type |-> "in", left |-> l, right |-> r]

\* enum values and operators are kept as the text they render to
AggregatesEnum ==
    {<<"A", "V", "G">>, <<"S", "U", "M">>, <<"M", "A", "X">>, <<"M", "I", "N">>,
     <<"C", "O", "U", "N", "T">>}
OperandFuncEnum ==
    {<<"Y", "E", "A", "R">>, <<"M", "O", "N", "T", "H">>, <<"D", "A", "Y">>,
     <<"D", "A", "T", "E">>, <<"F", "L", "O", "O", "R">>, <<"R", "O", "U", "N", "D">>,
     <<"L", "O", "W", "E", "R">>, <<"U", "P", "P", "E", "R">>,
     <<"L", "E", "N", "G", "T", "H">>}

---------------------------------------------------------------------------
(* models/sql.py: from_input of the expression classes.  Every class builds *)
(* its object with model_construct, which runs no validator: the           *)
(* ensure_subqueries_are_scalar, ensure_the_subquery_has_a_single_column   *)
(* and is_table validators declared on the classes are never run.          *)

Ok(node, r) == [err |-> "", node |-> node, redis |-> r]

\* `x = await f(...)` followed by the rest of the method: an exception raised by
\* the awaited call propagates, otherwise the rest runs with the value returned
Await(a, Rest(_)) == IF a.err # "" THEN a ELSE Rest(a)

\* _AliasedExpr.from_input
AliasedFromInput(inp, user, r, ord) ==
    Await(AliasFetch(inp.alias_id, inp.alias_name, user, r, ord),
          LAMBDA f : Ok([type |-> "aliased", alias |-> f.obj], f.redis))

\* _SelectSubquery.from_input
SubqueryFromInput(inp, user, r, ord) ==
    Await(QueryFetch(inp.query_id, inp.query_name, user, r, ord),
          LAMBDA f : Ok([type |-> "subquery", query |-> f.obj,
                         _sql |-> RStrip(f.obj.query_sql, ";")], f.redis))

\* _SelectSubquery.scalarize: self._sql = self.query.scalarize(); an exception
\* raised by Query.scalarize leaves _sql as it was
SubqueryScalarize(node) ==
    [err |-> scalarize(node.query).err,
     node |-> IF scalarize(node.query).err = "" THEN [node EXCEPT !._sql = scalarize(node.query).sql]
              ELSE node]

RECURSIVE from_input(_, _, _, _)
RECURSIVE ListFromInput(_, _, _, _)
RECURSIVE CasesFromInput(_, _, _, _)

\* [await x._counterpart.from_input(x) for x in items], left to right
ListFromInput(items, user, r, ord) ==
    IF items = <<>> THEN Ok(<<>>, r)
    ELSE Await(from_input(Head(items), user, r, ord), LAMBDA h :
         Await(ListFromInput(Tail(items), user, h.redis, ord), LAMBDA t :
         Ok(<<h.node>> \o t.node, t.redis)))

\* _CaseItem.from_input for each item of CaseExpr.cases
CasesFromInput(cases, user, r, ord) ==
    IF cases = <<>> THEN Ok(<<>>, r)
    ELSE Await(from_input(Head(cases).case, user, r, ord), LAMBDA c :
         Await(from_input(Head(cases).then, user, c.redis, ord), LAMBDA th :
         Await(CasesFromInput(Tail(cases), user, th.redis, ord), LAMBDA t :
         Ok(<<CaseItem(c.node, th.node)>> \o t.node, t.redis))))

\* inp._counterpart.from_input(inp)
from_input(inp, user, r, ord) ==
    CASE inp.type \in {"literal", "table", "col", "interval", "*"} -> Ok(inp, r)
      [] inp.type = "aliased" -> AliasedFromInput(inp, user, r, ord)
      [] inp.type = "subquery" -> SubqueryFromInput(inp, user, r, ord)
      [] inp.type \in {"op", "and_or", "compare", "in"} ->
            Await(from_input(inp.left, user, r, ord), LAMBDA l :
            Await(from_input(inp.right, user, l.redis, ord), LAMBDA rt :
            Ok([inp EXCEPT !.left = l.node, !.right = rt.node], rt.redis)))
      [] inp.type \in {"not", "isnull"} ->
            Await(from_input(inp.operand, user, r, ord), LAMBDA o :
            Ok([inp EXCEPT !.operand = o.node], o.redis))
      [] inp.type = "func" ->
            Await(ListFromInput(inp.args, user, r, ord), LAMBDA a :
            Ok([inp EXCEPT !.args = a.node], a.redis))
      [] inp.type = "between" ->
            Await(from_input(inp.expr, user, r, ord), LAMBDA e :
            Await(from_input(inp.upper, user, e.redis, ord), LAMBDA u :
            Await(from_input(inp.lower, user, u.redis, ord), LAMBDA l :
            Ok([inp EXCEPT !.expr = e.node, !.upper = u.node, !.lower = l.node], l.redis))))
      [] inp.type = "case" ->
            Await(CasesFromInput(inp.cases, user, r, ord), LAMBDA cs :
            Await(from_input(inp.default, user, cs.redis, ord), LAMBDA d :
            Ok([inp EXCEPT !.cases = cs.node, !.default = d.node], d.redis)))

---------------------------------------------------------------------------
(* models/sql.py: is_aggregate of the resolved nodes                       *)

RECURSIVE is_aggregate(_)

\* _CaseItem.is_aggregate
CaseItemIsAggregate(item) == is_aggregate(item.case) \/ is_aggregate(item.then)

\* _CaseExpr.is_aggregate: all(...) over the cases, or the default
CaseExprIsAggregate(node) ==
    (\A i \in 1..Len(node.cases) : CaseItemIsAggregate(node.cases[i]))
        \/ is_aggregate(node.default)

\* _FunctionCall.is_aggregate
FunctionCallIsAggregate(node) ==
    node.func \in AggregatesEnum \/ \E i \in 1..Len(node.args) : is_aggregate(node.args[i])

is_aggregate(node) ==
    CASE node.type \in {"literal", "interval", "subquery"} -> FALSE
      [] node.type \in {"table", "col"} -> node.is_aggregate
      [] node.type = "aliased" -> node.alias.is_aggregate
      [] node.type \in {"op", "and_or", "compare", "in"} ->
            is_aggregate(node.left) \/ is_aggregate(node.right)
      [] node.type \in {"not", "isnull"} -> is_aggregate(node.operand)
      [] node.type = "between" ->
            is_aggregate(node.expr) \/ is_aggregate(node.upper) \/ is_aggregate(node.lower)
      [] node.type = "func" -> FunctionCallIsAggregate(node)
      [] node.type = "case" -> CaseExprIsAggregate(node)

---------------------------------------------------------------------------
(* models/sql.py: sql() of the resolved nodes                              *)


DigitChar(d) ==
    CASE d = 0 -> "0" [] d = 1 -> "1" [] d = 2 -> "2" [] d = 3 -> "3" [] d = 4 -> "4"
      [] d = 5 -> "5" [] d = 6 -> "6" [] d = 7 -> "7" [] d = 8 -> "8" [] d = 9 -> "9"

\* f"{n}" for an int
RECURSIVE NatToText(_)
NatToText(n) == IF n < 10 THEN <<DigitChar(n)>> ELSE NatToText(n \div 10) \o <<DigitChar(n % 10)>>
IntToText(n) == IF n < 0 THEN <<"-">> \o NatToText(0 - n) ELSE NatToText(n)

\* sep.join(parts)
RECURSIVE Join(_, _)
Join(sep, parts) ==
    IF parts = <<>> THEN <<>>
    ELSE IF Len(parts) = 1 THEN parts[1]
    ELSE parts[1] \o sep \o Join(sep, Tail(parts))

\* str.strip(): leading and trailing whitespace removed
RECURSIVE Strip(_)
Strip(s) ==
    IF Len(s) > 0 /\ s[Len(s)] \in WhiteSpace THEN Strip(SubSeq(s, 1, Len(s) - 1))
    ELSE IF Len(s) > 0 /\ s[1] \in WhiteSpace THEN Strip(Tail(s))
    ELSE s

Quoted(name) == <<BQ>> \o name \o <<BQ>>
Paren(t) == <<"(">> \o t \o <<")">>

RECURSIVE sql(_)

\* _AliasedExpr.sql_as / _SelectSubquery.sql_as
sql_as(node) ==
    IF node.type = "aliased"
    THEN node.alias.target \o SP \o KW.as \o SP \o Quoted(node.alias.alias)
    ELSE Paren(node._sql) \o SP \o KW.as \o SP \o Quoted(node.query.name)

\* _CaseItem.sql
CaseItemSql(item) == KW.when \o SP \o sql(item.case) \o SP \o KW.then \o SP \o sql(item.then)

\* f"{value}" for an int, a float or a bool
Format(node) ==
    CASE node.vkind = "int" -> IntToText(node.ival)
      [] node.vkind = "float" -> IntToText(node.whole) \o <<".", DigitChar(node.tenths)>>
      [] node.vkind = "bool" -> IF node.bval THEN <<"T", "r", "u", "e">>
                                ELSE <<"F", "a", "l", "s", "e">>

\* LiteralObject.sql
LiteralSql(node) ==
    IF IsInstance(node, "str") THEN <<QUOTE>> \o node.sval \o <<QUOTE>>
    ELSE IF IsInstance(node, "int") \/ IsInstance(node, "float") THEN Format(node)
    ELSE IF IsInstance(node, "bool") THEN (IF node.bval THEN <<"1">> ELSE <<"0">>)
    ELSE <<"N", "o", "n", "e">>

sql(node) ==
    CASE node.type = "literal" -> LiteralSql(node)
      [] node.type = "*" -> <<"*">>
      [] node.type = "table" -> Quoted(node.table)
      [] node.type = "col" -> Quoted(node.table) \o <<".">> \o Quoted(node.column)
      [] node.type = "interval" -> KW.interval \o SP \o IntToText(node.value) \o SP \o node.unit
      [] node.type = "aliased" -> node.alias.target
      [] node.type = "subquery" -> Paren(node._sql)
      [] node.type = "op" ->
            Paren(sql(node.left) \o SP \o node.operation \o SP \o sql(node.right))
      [] node.type = "and_or" ->
            Paren(sql(node.left) \o SP \o node.bool_op \o SP \o sql(node.right))
      [] node.type = "compare" ->
            Paren(sql(node.left) \o SP \o node.operator \o SP \o sql(node.right))
      [] node.type = "in" -> Paren(sql(node.left) \o SP \o KW.in \o SP \o sql(node.right))
      [] node.type = "not" -> KW.not \o SP \o Paren(sql(node.operand))
      [] node.type = "isnull" -> Paren(sql(node.operand) \o SP \o KW.is_null)
      [] node.type = "between" ->
            sql(node.expr) \o SP \o (IF node.negate THEN KW.not ELSE <<>>) \o SP
                \o KW.between \o SP \o sql(node.lower) \o SP \o KW.and \o SP \o sql(node.upper)
      [] node.type = "func" ->
            node.func \o Paren(Join(<<",">>, [i \in 1..Len(node.args) |-> sql(node.args[i])]))
      [] node.type = "case" ->
            KW.case \o SP
                \o Join(SP, [i \in 1..Len(node.cases) |-> CaseItemSql(node.cases[i])])
                \o SP \o KW.else \o SP \o sql(node.default) \o SP \o KW.end

---------------------------------------------------------------------------
(* models/sql.py: the clauses and the query                                *)

EmptyClause == [type |-> "EmptyClause"]

JoinClauseInput(table, on, type) == [table |-> table, on_condition |-> on, type |-> type]
WhereClauseInput(e) == [expression |-> e]
HavingClauseInput(e) == [expression |-> e]
OrderByItemInput(e, d) == [operand |-> e, direction |-> d]
OrderByClauseInput(items) == [items |-> items]
GroupByClauseInput(items) == [items |-> items]
LimitClause(l, o) == [type |-> "LimitClause", limit |-> l, offset |-> o]
SelectClauseInput(cols, from, join) == [columns |-> cols, from_ |-> from, join_clause |-> join]
SelectQueryInput(s, w, g, h, o, l) ==
    [select |-> s, where |-> w, groupby |-> g, having |-> h, orderby |-> o, limit |-> l]

\* JoinClause.from_input
JoinFromInput(inp, user, r, ord) ==
    Await(from_input(inp.on_condition, user, r, ord), LAMBDA on_condition :
    IF is_aggregate(on_condition.node)
    THEN Raise("_ImproperAggregateUse", "JOIN", on_condition.redis)
    ELSE Await(from_input(inp.table, user, on_condition.redis, ord), LAMBDA table :
         Ok([type |-> "JoinClause", table |-> table.node,
             on_condition |-> on_condition.node, jtype |-> inp.type], table.redis)))

\* a WhereClause.from_input without the aggregate check
WhereFromInput_Unchecked(inp, user, r, ord) ==
    Await(from_input(inp.expression, user, r, ord), LAMBDA expression :
    Ok([type |-> "WhereClause", expression |-> expression.node], expression.redis))

\* WhereClause.from_input
WhereFromInput(inp, user, r, ord) ==
    Await(from_input(inp.expression, user, r, ord), LAMBDA expression :
    IF is_aggregate(expression.node)
    THEN Raise("_ImproperAggregateUse", "WHERE", expression.redis)
    ELSE Ok([type |-> "WhereClause", expression |-> expression.node], expression.redis))

\* HavingClause.from_input
HavingFromInput(inp, user, r, ord) ==
    Await(from_input(inp.expression, user, r, ord), LAMBDA expression :
    Ok([type |-> "HavingClause", expression |-> expression.node], expression.redis))

\* OrderByItem.from_input for each item, then OrderByClause.from_input
RECURSIVE OrderByItemsFromInput(_, _, _, _)
OrderByItemsFromInput(items, user, r, ord) ==
    IF items = <<>> THEN Ok(<<>>, r)
    ELSE Await(from_input(Head(items).operand, user, r, ord), LAMBDA h :
         Await(OrderByItemsFromInput(Tail(items), user, h.redis, ord), LAMBDA t :
         Ok(<<[operand |-> h.node, direction |-> Head(items).direction]>> \o t.node,
            t.redis)))

OrderByFromInput(inp, user, r, ord) ==
    Await(OrderByItemsFromInput(inp.items, user, r, ord), LAMBDA items :
    Ok([type |-> "OrderByClause", items |-> items.node], items.redis))

\* a GroupByClause.from_input that leaves the clause out when an item fails to resolve
GroupByFromInput_BestEffort(inp, user, r, ord) ==
    LET items == ListFromInput(inp.items, user, r, ord)
    IN  IF items.err # "" THEN Ok(EmptyClause, items.redis)
        ELSE IF \E i \in 1..Len(items.node) : is_aggregate(items.node[i])
        THEN Raise("_ImproperAggregateUse", "GROUP BY", items.redis)
        ELSE Ok([type |-> "GroupByClause", items |-> items.node], items.redis)

\* GroupByClause.from_input
GroupByFromInput(inp, user, r, ord) ==
    Await(ListFromInput(inp.items, user, r, ord), LAMBDA items :
    IF \E i \in 1..Len(items.node) : is_aggregate(items.node[i])
    THEN Raise("_ImproperAggregateUse", "GROUP BY", items.redis)
    ELSE Ok([type |-> "GroupByClause", items |-> items.node], items.redis))

\* SelectClause.from_input: from_, then the columns, then the join clause
SelectFromInput(inp, user, r, ord) ==
    Await(from_input(inp.from_, user, r, ord), LAMBDA from_ :
    Await(ListFromInput(inp.columns, user, from_.redis, ord), LAMBDA columns :
    Await(IF inp.join_clause # None
          THEN JoinFromInput(inp.join_clause, user, columns.redis, ord)
          ELSE Ok(EmptyClause, columns.redis), LAMBDA join :
    Ok([type |-> "SelectClause", columns |-> columns.node, from_ |-> from_.node,
        join_clause |-> join.node], join.redis))))

\* SelectQuery.from_input
SelectQueryFromInput(inp, user, r, ord) ==
    Await(SelectFromInput(inp.select, user, r, ord), LAMBDA select :
    Await(IF inp.where # None THEN WhereFromInput(inp.where, user, select.redis, ord)
          ELSE Ok(EmptyClause, select.redis), LAMBDA where :
    Await(IF inp.groupby # None THEN GroupByFromInput(inp.groupby, user, where.redis, ord)
          ELSE Ok(EmptyClause, where.redis), LAMBDA groupby :
    Await(IF inp.having # None THEN HavingFromInput(inp.having, user, groupby.redis, ord)
          ELSE Ok(EmptyClause, groupby.redis), LAMBDA having :
    Await(IF inp.orderby # None THEN OrderByFromInput(inp.orderby, user, having.redis, ord)
          ELSE Ok(EmptyClause, having.redis), LAMBDA orderby :
    Ok([select |-> select.node, where |-> where.node, groupby |-> groupby.node,
        having |-> having.node, orderby |-> orderby.node,
        limit |-> IF inp.limit # None THEN inp.limit ELSE EmptyClause],
       orderby.redis))))))

\* OrderByItem.sql
OrderByItemSql(item) == sql(item.operand) \o SP \o item.direction

\* the sql() of EmptyClause, LimitClause, JoinClause, WhereClause, HavingClause,
\* OrderByClause, GroupByClause and SelectClause
RECURSIVE ClauseSql(_)
ClauseSql(c) ==
    CASE c.type = "EmptyClause" -> <<>>
      [] c.type = "LimitClause" ->
            KW.limit \o SP \o IntToText(c.limit) \o SP \o KW.offset \o SP \o IntToText(c.offset)
      [] c.type = "JoinClause" ->
            c.jtype \o SP \o KW.join \o SP
                \o (IF c.table.type = "subquery" THEN sql_as(c.table) ELSE sql(c.table))
                \o SP \o KW.on \o SP \o sql(c.on_condition)
      [] c.type = "WhereClause" -> KW.where \o SP \o sql(c.expression)
      [] c.type = "HavingClause" -> KW.having \o SP \o sql(c.expression)
      [] c.type = "OrderByClause" ->
            KW.order_by \o SP
                \o Join(<<",">>, [i \in 1..Len(c.items) |-> OrderByItemSql(c.items[i])])
      [] c.type = "GroupByClause" ->
            KW.group_by \o SP \o Join(<<",">>, [i \in 1..Len(c.items) |-> sql(c.items[i])])
      [] c.type = "SelectClause" ->
            KW.select \o SP
                \o Join(<<",", " ">>,
                        [i \in 1..Len(c.columns) |->
                            IF c.columns[i].type \in {"aliased", "subquery"}
                            THEN sql_as(c.columns[i]) ELSE sql(c.columns[i])])
                \o SP \o KW.from \o SP
                \o (IF c.from_.type = "subquery" THEN sql_as(c.from_) ELSE sql(c.from_))
                \o SP \o ClauseSql(c.join_clause)

\* a SelectQuery.sql that does not strip the text
SelectQuerySql_Unstripped(q) ==
    ClauseSql(q.select) \o SP \o ClauseSql(q.where) \o SP \o ClauseSql(q.groupby) \o SP
        \o ClauseSql(q.having) \o SP \o ClauseSql(q.orderby) \o SP \o ClauseSql(q.limit)
        \o <<";">>

\* SelectQuery.sql
SelectQuerySql(q) ==
    Strip(ClauseSql(q.select) \o SP \o ClauseSql(q.where) \o SP \o ClauseSql(q.groupby) \o SP
            \o ClauseSql(q.having) \o SP \o ClauseSql(q.orderby) \o SP \o ClauseSql(q.limit))
        \o <<";">>

\* a get_col_count that counts the wildcard as one column
get_col_count_Len(q) == Len(q.select.columns)

\* SelectQuery.get_col_count
get_col_count(q) == IF q.select.columns = <<AllCols>> THEN -1 ELSE Len(q.select.columns)

---------------------------------------------------------------------------
(* Requests that fetch one object, and the expiry of cache keys            *)

EmptyCache == [k \in {} |-> 0]

MaxId == 4
Names == {<<"c">>, <<"q">>}

\* a request handler calls Alias.fetch / Query.fetch for its user
\* the names utils/exceptions.py defines, among those the model raises
DefinedExceptions == {"InvalidQuery", "QueryAlreadyExists"}

\* a message that names no dimension
NO_ATTRIBUTE == "module has no attribute"

\* str(e) of the exception that leaves `raise exc.<err>(<message>)`: the attribute
\* exc.<err> is evaluated before the message; when the module has no such name the
\* statement raises AttributeError and the message is never built
RaisedMessage(err, message) ==
    IF err \in DefinedExceptions THEN message ELSE NO_ATTRIBUTE

FetchOutcome(kind, id, name, user, before, f) ==
    [op |-> "fetch", kind |-> kind, id |-> id, name |-> name, user |-> user,
     before |-> before, store |-> Table(kind), err |-> f.err,
     message |-> IF f.err = "" THEN "" ELSE RaisedMessage(f.err, f.detail),
     detail |-> IF f.err = "" THEN f.from ELSE f.detail,
     obj |-> IF f.err = "" THEN f.obj ELSE [owner_id |-> 0]]

FetchRequest(kind, id, name, user, ord) ==
    /\ pc = "idle"
    /\ LET f == Fetch(kind, id, name, user, redis, ord)
       IN  /\ redis' = f.redis
           /\ result' = FetchOutcome(kind, id, name, user, redis, f)
    /\ pc' = "done"
    /\ UNCHANGED <<aliases, queries>>

FetchById ==
    \E kind \in {"alias", "query"}, id \in 1..MaxId, user \in Users, ord \in ScanOrders :
        FetchRequest(kind, id, <<>>, user, ord)

FetchByName ==
    \E kind \in {"alias", "query"}, name \in Names, user \in Users, ord \in ScanOrders :
        FetchRequest(kind, 0, name, user, ord)

\* the response is delivered; the cache and the store stay as the request left them
Respond ==
    /\ pc = "done"
    /\ pc' = "idle"
    /\ result' = NoResult
    /\ UNCHANGED <<redis, aliases, queries>>

\* The three keys of an object are written in the order real key, id pointer, name
\* pointer, each with the same time to live, so they expire in that order.
WrittenBefore(k) ==
    IF k.dim = "real" THEN {}
    ELSE LET real == redis[k].val
         IN  IF k.dim = "id" THEN {real} ELSE {real, IdPointerKey(k.kind, real.id)}

Expire ==
    /\ pc = "idle"
    /\ \E k \in DOMAIN redis :
        /\ WrittenBefore(k) \cap DOMAIN redis = {}
        /\ redis' = [x \in DOMAIN redis \ {k} |-> redis[x]]
    /\ UNCHANGED <<aliases, queries, pc, result>>

\* the objects two owners hold under one name
InitCache ==
    /\ redis = EmptyCache
    /\ aliases = {row \in AliasRows : row.alias = <<"c">>}
    /\ queries = {row \in QueryRows : row.name = <<"q">>}
    /\ pc = "idle"
    /\ result = NoResult

NextCache == FetchById \/ FetchByName \/ Expire \/ Respond

SpecCache == InitCache /\ [][NextCache]_vars

---------------------------------------------------------------------------
(* Query.scalarize applied to stored queries                               *)

MaxSemis == 2

RECURSIVE Semis(_)
Semis(n) == IF n = 0 THEN <<>> ELSE <<";">> \o Semis(n - 1)

KW_limit == <<"l", "i", "m", "i", "t">>
KW_LIMT == <<"L", "I", "M", "T">>
SQL_BODY == KW.select \o SP \o <<"1">>

\* SQL texts with and without a trailing LIMIT clause, well-formed and not
LimitShapes ==
    [kw : {KW.limit, KW_limit, KW_LIMT},
     ws : {SP, <<" ", "\n">>},
     digits : {<<"1">>, <<"5">>, <<"0", "1">>, <<"1", "0">>, <<>>},
     offset : {<<>>, SP \o KW.offset \o SP \o <<"0">>, SP \o KW.offset},
     trail : {<<>>, SP},
     semis : 0..MaxSemis,
     col_count : {1, 2}]

BuildSql(p) == SQL_BODY \o SP \o p.kw \o p.ws \o p.digits \o p.offset \o p.trail \o Semis(p.semis)

ScalarizeInputs ==
    {QueryRow(1, 1, <<"q">>, BuildSql(p), <<"c">>, p.col_count) : p \in LimitShapes}
    \cup {QueryRow(1, 1, <<"q">>, SQL_BODY \o Semis(n), <<"c">>, c) : n \in 0..MaxSemis, c \in {1, 2}}

Scalarize ==
    /\ pc = "idle"
    /\ \E q \in queries :
        result' = [op |-> "scalarize", query |-> q, out |-> scalarize(q)]
    /\ pc' = "done"
    /\ UNCHANGED <<redis, aliases, queries>>

\* a Query object whose SQL is the text an earlier scalarize returned
Rescalarize ==
    /\ pc = "done"
    /\ result.op = "scalarize"
    /\ result.out.err = ""
    /\ result' = [op |-> "rescalarize", first |-> result.query, previous |-> result.out.sql,
                  out |-> scalarize([result.query EXCEPT !.query_sql = result.out.sql])]
    /\ UNCHANGED <<redis, aliases, queries, pc>>

MaxCalls == 3

SubqueryScalarizeOutcome(before, s) ==
    [op |-> "subquery", calls |-> before.calls + 1, err |-> s.err, node |-> s.node]

\* a _SelectSubquery node as from_input builds it from a fetched query
NewSubquery ==
    /\ pc = "idle"
    /\ \E q \in queries :
        result' = [op |-> "subquery", calls |-> 0, err |-> "",
                   node |-> [type |-> "subquery", query |-> q,
                             _sql |-> RStrip(q.query_sql, ";")]]
    /\ pc' = "done"
    /\ UNCHANGED <<redis, aliases, queries>>

\* one more call of _SelectSubquery.scalarize on the node
CallSubqueryScalarize ==
    /\ pc = "done"
    /\ result.op = "subquery"
    /\ result.err = ""
    /\ result.calls < MaxCalls
    /\ result' = SubqueryScalarizeOutcome(result, SubqueryScalarize(result.node))
    /\ UNCHANGED <<redis, aliases, queries, pc>>

InitScalarize ==
    /\ redis = EmptyCache
    /\ aliases = {}
    /\ \E q \in ScalarizeInputs : queries = {q}
    /\ pc = "idle"
    /\ result = NoResult

NextScalarize == Scalarize \/ Rescalarize \/ NewSubquery \/ CallSubqueryScalarize \/ Respond

SpecScalarize == InitScalarize /\ [][NextScalarize]_vars

---------------------------------------------------------------------------
(* Compiling input queries                                                 *)

One == LiteralObject(1)
OP_EQ == <<"=">>
OP_PLUS == <<"+">>
FN_SUM == <<"S", "U", "M">>
FN_YEAR == <<"Y", "E", "A", "R">>
FN_ROUND == <<"R", "O", "U", "N", "D">>
UNIT_DAY == <<"D", "A", "Y">>
DIR_ASC == <<"A", "S", "C">>
JOIN_LEFT == <<"L", "E", "F", "T">>

ById(id) == AliasedExpr(id, <<>>)
ByName(name) == AliasedExpr(0, name)
SubById(id) == SelectSubquery(id, <<>>)

TrueCond == ComparisonExpr(One, OP_EQ, One)

\* alias 5 is in no table
AliasLeaves == {ById(1), ById(2), ById(3), ById(5), ByName(<<"c">>)}
SubqueryLeaves == {SubById(1), SubById(2)}
Leaves ==
    AliasLeaves \cup SubqueryLeaves
        \cup {One, ColumnOperand(<<"o">>, <<"x">>), TableOperand(<<"o">>), IntervalExpr(1, UNIT_DAY)}

\* the composite expressions with x in one operand position
ExprAround(x) ==
    { BinaryOperation(x, OP_PLUS, One),
      BinaryOperation(One, OP_PLUS, x),
      FunctionCall(FN_SUM, <<x>>),
      FunctionCall(FN_YEAR, <<x>>),
      FunctionCall(FN_ROUND, <<One, x>>),
      CaseExpr(<<CaseItem(TrueCond, x)>>, One),
      CaseExpr(<<CaseItem(TrueCond, x), CaseItem(TrueCond, One)>>, One),
      CaseExpr(<<CaseItem(TrueCond, One)>>, x),
      CaseExpr(<<CaseItem(ComparisonExpr(x, OP_EQ, One), One), CaseItem(TrueCond, One)>>, One) }

ExpressionsOver(L) == L \cup UNION {ExprAround(x) : x \in L}

\* the boolean expressions with e in one operand position
BoolAround(e) ==
    { ComparisonExpr(e, OP_EQ, One),
      ComparisonExpr(One, OP_EQ, e),
      BetweenExpr(e, One, One, FALSE),
      BetweenExpr(One, e, One, TRUE),
      BetweenExpr(One, One, e, FALSE),
      IsNull(e),
      InExpr(e, SubById(1)),
      NotExpr(IsNull(e)),
      BooleanBinaryExpr(TrueCond, KW.and, IsNull(e)),
      BooleanBinaryExpr(IsNull(e), KW.or, TrueCond) }

BooleanExpressionsOver(L) ==
    UNION {BoolAround(e) : e \in L}
        \cup {ComparisonExpr(e, OP_EQ, One) : e \in ExpressionsOver(L)}
        \cup {InExpr(e, s) : e \in {One, ById(3)}, s \in SubqueryLeaves}
        \cup {ById(2), ById(3)}

BaseSelect == SelectClauseInput(<<ById(2)>>, ById(1), None)
Query(s, w, g, h, o, l) == SelectQueryInput(s, w, g, h, o, l)

\* the input queries whose varying operand is drawn from the leaves L
InputQueriesOver(L) ==
    {Query(BaseSelect, WhereClauseInput(b), None, None, None, None) :
            b \in BooleanExpressionsOver(L)}
    \cup {Query(BaseSelect, None, None, HavingClauseInput(b), None, None) :
            b \in BooleanExpressionsOver(L)}
    \cup {Query(SelectClauseInput(<<ById(2)>>, ById(1), JoinClauseInput(ById(1), b, JOIN_LEFT)),
                None, None, None, None, None) : b \in BooleanExpressionsOver(L)}
    \cup {Query(BaseSelect, None, GroupByClauseInput(<<e>>), None, None, None) :
            e \in ExpressionsOver(L)}
    \cup {Query(BaseSelect, None, GroupByClauseInput(<<e, f>>), None, None, None) :
            e \in L, f \in {ById(3), ById(5)}}
    \cup {Query(BaseSelect, None, GroupByClauseInput(<<ById(3), e>>), None, None, None) :
            e \in L}
    \cup {Query(BaseSelect, None, None, None,
                OrderByClauseInput(<<OrderByItemInput(e, DIR_ASC)>>), None) :
            e \in ExpressionsOver(L)}
    \cup {Query(SelectClauseInput(<<c>>, f, None), None, None, None, None, LimitClause(1, 0)) :
            c \in (L \cap (AliasLeaves \cup SubqueryLeaves))
                    \cup {ColumnOperand(<<"o">>, <<"x">>), AllCols},
            f \in {ById(1), ById(2), SubById(1)}}
    \cup {Query(SelectClauseInput(<<ById(2), ById(3)>>, f, None), None, None, None, None, None) :
            f \in L \cap (AliasLeaves \cup SubqueryLeaves)}
    \cup {Query(SelectClauseInput(<<AllCols>>, ById(1), JoinClauseInput(t, TrueCond, JOIN_LEFT)),
                None, None, None, None, None) : t \in L \cap (AliasLeaves \cup SubqueryLeaves)}
    \cup {Query(SelectClauseInput(<<c>>, ById(1), JoinClauseInput(ById(1), ById(3), JOIN_LEFT)),
                None, None, None, None, None) : c \in L \cap {ById(5)}}

\* every combination of present and absent optional clauses
ClauseCombinations ==
    {Query(SelectClauseInput(<<ById(2)>>, ById(1), j), w, g, h, o, l) :
        j \in {None, JoinClauseInput(ById(1), TrueCond, JOIN_LEFT)},
        w \in {None, WhereClauseInput(TrueCond)},
        g \in {None, GroupByClauseInput(<<ById(2)>>)},
        h \in {None, HavingClauseInput(ById(3))},
        o \in {None, OrderByClauseInput(<<OrderByItemInput(ById(2), DIR_ASC)>>)},
        l \in {None, LimitClause(1, 0)}}

InputQueries == InputQueriesOver(Leaves) \cup ClauseCombinations

\* A lookup by primary key returns at most one row whatever the scan order; only
\* the queries with a reference by name depend on it.
InputQueriesByIdOnly == InputQueriesOver(Leaves \ {ByName(<<"c">>)}) \cup ClauseCombinations
ScanOrdersFor(inp) == IF inp \in InputQueriesByIdOnly THEN {"asc"} ELSE ScanOrders

\* the outcome of a compilation c: the error, or the query and its sql()
CompileOutcome(user, inp, ord, before, c) ==
    [op |-> "compile", user |-> user, inp |-> inp, ord |-> ord, before |-> before,
     err |-> c.err,
     detail |-> IF c.err = "" THEN "" ELSE c.detail,
     query |-> IF c.err = "" THEN c.node ELSE None,
     sql |-> IF c.err = "" THEN SelectQuerySql(c.node) ELSE <<>>,
     col_count |-> IF c.err = "" THEN get_col_count(c.node) ELSE 0]

\* convert_input_query, and the rendering of the query it returns
Compile ==
    /\ pc = "idle"
    /\ \E user \in Users, inp \in InputQueries : \E ord \in ScanOrdersFor(inp) :
        LET c == SelectQueryFromInput(inp, user, redis, ord)
        IN  /\ redis' = c.redis
            /\ result' = CompileOutcome(user, inp, ord, redis, c)
    /\ pc' = "done"
    /\ UNCHANGED <<aliases, queries>>

\* every cached key has outlived its time to live
ExpireAll ==
    /\ pc = "idle"
    /\ redis # EmptyCache
    /\ redis' = EmptyCache
    /\ UNCHANGED <<aliases, queries, pc, result>>

Init ==
    /\ redis = EmptyCache
    /\ aliases = AliasRows
    /\ queries = QueryRows
    /\ pc = "idle"
    /\ result = NoResult

Next == Compile \/ Respond \/ ExpireAll

Spec == Init /\ [][Next]_vars

---------------------------------------------------------------------------
(* Alias.fetch / Query.fetch await by await, among concurrent requests,    *)
(* del_alias / del_query, and the passing of time                          *)

Reqs == {1, 2}

\* the rows the store holds at the start; the requests name their ids and names
StoredAtStart(kind) ==
    IF kind = "alias" THEN {row \in AliasRows : row.alias_id = 2}
    ELSE {row \in QueryRows : row.query_id = 3}

\* the local variables of a fetch at its start
FetchLocals(kind, id, name, user, ord) ==
    [op |-> "fetch", kind |-> kind, id |-> id, name |-> name, user |-> user, ord |-> ord,
     pointer_key |-> IF id # 0 THEN IdPointerKey(kind, id)
                     ELSE NamePointerKey(kind, user, name),
     error_str |-> IF id # 0 THEN "id" ELSE "name",
     redis_key |-> None, obj |-> None, err |-> "", from |-> "", written |-> <<>>,
     stalled |-> FALSE, queried |-> FALSE]

At(r, label) == pc[r] = label
Goto(r, label) == pc' = [pc EXCEPT ![r] = label]
Locals(r, l) == result' = [result EXCEPT ![r] = l]

\* a handler calls fetch with an id, or with a name
StartFetch(r) ==
    /\ At(r, "idle")
    /\ \E kind \in {"alias", "query"}, user \in Users :
        \/ \E id \in {row[IdField(kind)] : row \in StoredAtStart(kind)} :
                Locals(r, FetchLocals(kind, id, <<>>, user, "asc"))
        \/ \E name \in {row[NameField(kind)] : row \in StoredAtStart(kind)} :
                Locals(r, FetchLocals(kind, 0, name, user, "asc"))
    /\ Goto(r, "get_pointer")
    /\ UNCHANGED <<redis, aliases, queries>>

\* redis_key = await redis.get(pointer_key)
GetPointer(r) ==
    /\ At(r, "get_pointer")
    /\ IF Cached(redis, result[r].pointer_key)
       THEN /\ Locals(r, [result[r] EXCEPT !.redis_key = redis[result[r].pointer_key].val])
            /\ Goto(r, "get_real")
       ELSE /\ Goto(r, "db")
            /\ UNCHANGED result
    /\ UNCHANGED <<redis, aliases, queries>>

\* the fetch ends: it returns obj, or raises err
Returned(l, obj, src) == [l EXCEPT !.obj = obj, !.from = src]
Raised(l, kind) == [l EXCEPT !.err = kind]

\* the JSON under the real key was found
CacheHit(l, obj) ==
    IF obj.owner_id = l.user THEN Returned(l, obj, "cache") ELSE Raised(l, NotExists(l.kind))

\* alias_json = await redis.get(redis_key), and the owner check on a hit
\* a cache hit that sets the real key again, renewing its expiry
GetReal_Refresh(r) ==
    /\ At(r, "get_real")
    /\ IF Cached(redis, result[r].redis_key)
       THEN /\ Locals(r, CacheHit(result[r],
                                  ValidateJson(result[r].kind, redis[result[r].redis_key].val)))
            /\ Goto(r, "done")
            /\ redis' = RedisSet(redis, result[r].redis_key, redis[result[r].redis_key].val, TTL)
       ELSE /\ Goto(r, "db")
            /\ UNCHANGED <<result, redis>>
    /\ UNCHANGED <<aliases, queries>>

GetReal(r) ==
    /\ At(r, "get_real")
    /\ IF Cached(redis, result[r].redis_key)
       THEN /\ Locals(r, CacheHit(result[r],
                                  ValidateJson(result[r].kind, redis[result[r].redis_key].val)))
            /\ Goto(r, "done")
       ELSE /\ Goto(r, "db")
            /\ UNCHANGED result
    /\ UNCHANGED <<redis, aliases, queries>>

\* the coroutine built at the start, by_id or by_name
DbFetchCoro(l) ==
    IF l.id # 0 THEN by_id(l.kind, l.id, l.user, l.ord)
    ELSE by_name(l.kind, l.name, l.user, l.ord)

\* alias = await db_fetch_coro
DbFetch(r) ==
    /\ At(r, "db")
    /\ IF DbFetchCoro(result[r]).found
       THEN /\ Locals(r, [result[r] EXCEPT !.obj = DbFetchCoro(result[r]).row,
                                            !.queried = TRUE])
            /\ Goto(r, "set_real")
       ELSE /\ Locals(r, [Raised(result[r], NotExists(result[r].kind)) EXCEPT !.queried = TRUE])
            /\ Goto(r, "done")
    /\ UNCHANGED <<redis, aliases, queries>>

RealKeyOf(kind, row) == RealKey(kind, row[IdField(kind)], row.owner_id, row[NameField(kind)])

\* await redis.set(key, value, ex=3600)
AwaitSet(r, key, value, next) ==
    /\ redis' = RedisSet(redis, key, value, TTL)
    /\ Locals(r, [result[r] EXCEPT !.written = Append(@, key),
                                    !.from = IF next = "done" THEN "store" ELSE @])
    /\ Goto(r, next)
    /\ UNCHANGED <<aliases, queries>>

\* a fetch that sets the id pointer where the real key is due
SetReal_PointerFirst(r) ==
    /\ At(r, "set_real")
    /\ AwaitSet(r, IdPointerKey(result[r].kind, result[r].obj[IdField(result[r].kind)]),
                RealKeyOf(result[r].kind, result[r].obj), "set_id")

SetReal(r) ==
    /\ At(r, "set_real")
    /\ AwaitSet(r, RealKeyOf(result[r].kind, result[r].obj),
                DumpJson(result[r].kind, result[r].obj), "set_id")

SetIdPointer(r) ==
    /\ At(r, "set_id")
    /\ AwaitSet(r, IdPointerKey(result[r].kind, result[r].obj[IdField(result[r].kind)]),
                RealKeyOf(result[r].kind, result[r].obj), "set_name")

\* a name pointer keyed by the requesting user instead of the owner of the row
SetNamePointer_ForRequester(r) ==
    /\ At(r, "set_name")
    /\ AwaitSet(r, NamePointerKey(result[r].kind, result[r].user,
                                  result[r].obj[NameField(result[r].kind)]),
                RealKeyOf(result[r].kind, result[r].obj), "done")

SetNamePointer(r) ==
    /\ At(r, "set_name")
    /\ AwaitSet(r, NamePointerKey(result[r].kind, result[r].obj.owner_id,
                                  result[r].obj[NameField(result[r].kind)]),
                RealKeyOf(result[r].kind, result[r].obj), "done")

\* the handler that called fetch, or del_alias / del_query, has answered
Answer(r) ==
    /\ At(r, "done")
    /\ Goto(r, "idle")
    /\ Locals(r, NoResult)
    /\ UNCHANGED <<redis, aliases, queries>>

\* delete(T).where(T.owner_id == user.id, T.id == id), committed
Deleted(kind, id, user) ==
    {row \in Table(kind) : row.owner_id = user /\ row[IdField(kind)] = id}

\* del_alias / del_query; since is the time since the commit
Delete(r) ==
    /\ At(r, "idle")
    /\ \E kind \in {"alias", "query"}, user \in Users :
       \E id \in {row[IdField(kind)] : row \in StoredAtStart(kind)} :
        /\ Locals(r, [op |-> "del", kind |-> kind, id |-> id, user |-> user,
                      removed |-> Deleted(kind, id, user), since |-> 0])
        /\ aliases' = IF kind = "alias" THEN aliases \ Deleted(kind, id, user) ELSE aliases
        /\ queries' = IF kind = "query" THEN queries \ Deleted(kind, id, user) ELSE queries
    /\ Goto(r, "done")
    /\ UNCHANGED redis

DelAlias == \E r \in Reqs : Delete(r) /\ result'[r].kind = "alias"
DelQuery == \E r \in Reqs : Delete(r) /\ result'[r].kind = "query"

\* a second in which a fetch that has read the database has not yet written the cache
StallTime == 1
\* the rest of the hour
IdleTime == TTL - StallTime

InFlight(r) == pc[r] \notin {"idle", "done"}
Answering(r) == pc[r] = "done" /\ result[r].op = "fetch"

Elapse(d) ==
    /\ redis' = RedisAfter(redis, d)
    /\ result' = [r \in Reqs |->
                    IF result[r].op = "del" /\ result[r].removed # {}
                    THEN [result[r] EXCEPT !.since = IF @ + d > TTL THEN TTL ELSE @ + d]
                    ELSE IF At(r, "set_real") THEN [result[r] EXCEPT !.stalled = TRUE]
                    ELSE result[r]]
    /\ UNCHANGED <<aliases, queries, pc>>

Stall ==
    /\ \E r \in Reqs : At(r, "set_real") /\ ~result[r].stalled
    /\ \A r \in Reqs : ~Answering(r)
    /\ \A k \in DOMAIN redis : redis[k].age = 0
    /\ Elapse(StallTime)

Idle ==
    /\ \A r \in Reqs : ~InFlight(r) /\ ~Answering(r)
    /\ redis # EmptyCache
    /\ Elapse(IdleTime)

InitSteps ==
    /\ redis = EmptyCache
    /\ aliases = StoredAtStart("alias")
    /\ queries = StoredAtStart("query")
    /\ pc = [r \in Reqs |-> "idle"]
    /\ result = [r \in Reqs |-> NoResult]

NextSteps ==
    \/ \E r \in Reqs : StartFetch(r) \/ GetPointer(r) \/ GetReal(r) \/ DbFetch(r)
    \/ \E r \in Reqs : SetReal(r) \/ SetIdPointer(r) \/ SetNamePointer(r) \/ Answer(r)
    \/ DelAlias \/ DelQuery
    \/ Stall \/ Idle

SpecSteps == InitSteps /\ [][NextSteps]_vars

\* a key reaches the end of its ex seconds.  Concurrent fetches set the keys of an
\* object at different times, so the keys of an object expire in any order.
ExpireKey ==
    /\ \E k \in DOMAIN redis : redis' = [x \in DOMAIN redis \ {k} |-> redis[x]]
    /\ UNCHANGED <<aliases, queries, pc, result>>

\* concurrent fetches and key expiry, the store left as it is
NextFetches ==
    \/ \E r \in Reqs : StartFetch(r) \/ GetPointer(r) \/ GetReal(r) \/ DbFetch(r)
    \/ \E r \in Reqs : SetReal(r) \/ SetIdPointer(r) \/ SetNamePointer(r) \/ Answer(r)
    \/ ExpireKey

SpecFetches == InitSteps /\ [][NextFetches]_vars

---------------------------------------------------------------------------
(* routers/actions.py: new_query                                           *)

MaxQueryId == 5

\* the primary key the database gives the next row
NextQueryId == 1 + Cardinality(queries)

\* the input queries the clients send to new_query
NewQueryInputs ==
    { Query(BaseSelect, None, None, None, None, None),
      Query(SelectClauseInput(<<AllCols>>, SubById(1), None), None, None, None, None,
            LimitClause(1, 0)),
      Query(BaseSelect, None, None, HavingClauseInput(ById(3)), None, None),
      Query(BaseSelect, WhereClauseInput(ById(3)), None, None, None, None),
      Query(SelectClauseInput(<<ById(5)>>, ById(1), None), None, None, None, None, None) }

\* what the database answers to a statement
DbAnswers == {"ok", "IntegrityError", "error"}

\* models.Query(owner_id=user.id, name=name, query_sql=query.sql()): col_names and
\* col_count are not given, the row holds what the database puts in their place
NewQueryRow(user, name, query_sql) == QueryRow(NextQueryId, user, name, query_sql, <<>>, 0)

\* the INSERT at commit: (name, owner_id) is unique
Commit(row, answer) ==
    IF \E q \in queries : q.name = row.name /\ q.owner_id = row.owner_id
    THEN "IntegrityError" ELSE answer

\* a handler body that stores the row before it has executed the SQL
NewQueryBody_PersistFirst(user, name, query, executed, answer) ==
    IF Commit(NewQueryRow(user, name, SelectQuerySql(query)), answer) = "ok"
    THEN [err |-> IF executed # "ok" THEN "InvalidQuery" ELSE "",
          added |-> {NewQueryRow(user, name, SelectQuerySql(query))}]
    ELSE [err |-> "QueryAlreadyExists", added |-> {}]

\* the handler body, entered with the query convert_input_query returned
NewQueryBody(user, name, query, executed, answer) ==
    IF executed # "ok" THEN [err |-> "InvalidQuery", added |-> {}]
    ELSE IF Commit(NewQueryRow(user, name, SelectQuerySql(query)), answer) = "ok"
    THEN [err |-> "", added |-> {NewQueryRow(user, name, SelectQuerySql(query))}]
    ELSE IF Commit(NewQueryRow(user, name, SelectQuerySql(query)), answer) = "IntegrityError"
    THEN [err |-> "QueryAlreadyExists", added |-> {}]
    ELSE [err |-> "DatabaseError", added |-> {}]

\* new_query with its dependency convert_input_query: c is the compilation
NewQueryOutcome(user, name, inp, c, executed, answer) ==
    [op |-> "new_query", user |-> user, name |-> name, inp |-> inp,
     store |-> queries, before |-> redis,
     compiled |-> c.err, executed |-> IF c.err = "" THEN executed ELSE "none",
     out |-> IF c.err # "" THEN [err |-> c.err, added |-> {}]
             ELSE NewQueryBody(user, name, c.node, executed, answer)]

NewQuery ==
    /\ pc = "idle"
    /\ NextQueryId <= MaxQueryId
    /\ \E user \in Users, name \in Names, inp \in NewQueryInputs,
          executed \in {"ok", "error"}, answer \in DbAnswers :
        /\ result' = NewQueryOutcome(user, name, inp,
                                     SelectQueryFromInput(inp, user, redis, "asc"),
                                     executed, answer)
        /\ redis' = SelectQueryFromInput(inp, user, redis, "asc").redis
    /\ queries' = queries \cup result'.out.added
    /\ pc' = "done"
    /\ UNCHANGED aliases

NextStore == NewQuery \/ Respond \/ ExpireAll

SpecStore == Init /\ [][NextStore]_vars

---------------------------------------------------------------------------
(* LiteralObject: a value of the request body is validated (clean_string), *)
(* passes from_input unchanged and is rendered                             *)

MaxStrLen == 4
MaxInt == 9
MaxWhole == 1

RECURSIVE StringsUpTo(_)
StringsUpTo(n) ==
    IF n = 0 THEN {<<>>}
    ELSE StringsUpTo(n - 1)
            \cup {t \o <<c>> : t \in {u \in StringsUpTo(n - 1) : Len(u) = n - 1}, c \in {"a", QUOTE}}

\* the values of the "value" field of a request body
LiteralValues ==
    {StrLiteral(t) : t \in StringsUpTo(MaxStrLen)}
        \cup {LiteralObject(n) : n \in (0 - 3)..MaxInt}
        \cup {FloatLiteral(w, t) : w \in 0..MaxWhole, t \in {0, 2, 5}}
        \cup {BoolLiteral(b) : b \in BOOLEAN}

ValidateLiteral ==
    /\ pc = "idle"
    /\ \E v \in LiteralValues :
        result' = [op |-> "literal", raw |-> v, node |-> clean_string(v)]
    /\ pc' = "validated"
    /\ UNCHANGED <<redis, aliases, queries>>

RenderLiteral ==
    /\ pc = "validated"
    /\ result' = [op |-> "literal_sql", raw |-> result.raw, node |-> result.node,
                  out |-> sql(from_input(result.node, 1, redis, "asc").node)]
    /\ pc' = "done"
    /\ UNCHANGED <<redis, aliases, queries>>

InitLiteral ==
    /\ redis = EmptyCache
    /\ aliases = {}
    /\ queries = {}
    /\ pc = "idle"
    /\ result = NoResult

NextLiteral == ValidateLiteral \/ RenderLiteral \/ Respond

SpecLiteral == InitLiteral /\ [][NextLiteral]_vars

---------------------------------------------------------------------------
(* AliasedExpr / SelectSubquery of a request body: check_exclusive_fields, *)
(* then from_input, which fetches the alias or the query.  A field of the  *)
(* body is absent (None) or given, and 0 and "" are values that can be     *)
(* given.                                                                  *)

Unset == [set |-> FALSE]
Given(v) == [set |-> TRUE, v |-> v]

\* bool(x) of an Optional[int] / Optional[str]
BoolOfInt(f) == f.set /\ f.v # 0
BoolOfStr(f) == f.set /\ f.v # <<>>

\* the argument as Fetch takes it: 0 and <<>> stand for the falsy values
ArgOfInt(f) == IF f.set THEN f.v ELSE 0
ArgOfStr(f) == IF f.set THEN f.v ELSE <<>>

\* AliasedExpr.check_exclusive_fields / SelectSubquery.check_exclusive_fields
check_exclusive_fields(ref) ==
    IF BoolOfInt(ref.id) = BoolOfStr(ref.name) THEN "ValueError" ELSE ""

ReferenceInputs ==
    [type : {"aliased", "subquery"},
     id : {Unset, Given(0), Given(1), Given(2), Given(5)},
     name : {Unset, Given(<<>>), Given(<<"c">>), Given(<<"q">>), Given(<<"z">>)}]

\* the validated input node
ReferenceNode(ref) ==
    IF ref.type = "aliased" THEN AliasedExpr(ArgOfInt(ref.id), ArgOfStr(ref.name))
    ELSE SelectSubquery(ArgOfInt(ref.id), ArgOfStr(ref.name))

\* the request body is validated: a ValueError answers the request (422)
ValidateReference ==
    /\ pc = "idle"
    /\ \E ref \in ReferenceInputs, user \in Users :
        /\ result' = [op |-> "validate", ref |-> ref, user |-> user, before |-> redis,
                      err |-> check_exclusive_fields(ref)]
        /\ pc' = IF check_exclusive_fields(ref) = "" THEN "validated" ELSE "done"
    /\ UNCHANGED <<redis, aliases, queries>>

ResolveOutcome(ref, user, before, f) ==
    [op |-> "resolve", ref |-> ref, user |-> user, before |-> before, err |-> f.err,
     detail |-> IF f.err = "" THEN "" ELSE f.detail,
     node |-> IF f.err = "" THEN f.node ELSE None]

\* _AliasedExpr.from_input / _SelectSubquery.from_input of the validated node
ResolveReference ==
    /\ pc = "validated"
    /\ \E ord \in ScanOrders :
        /\ redis' = from_input(ReferenceNode(result.ref), result.user, redis, ord).redis
        /\ result' = ResolveOutcome(result.ref, result.user, redis,
                        from_input(ReferenceNode(result.ref), result.user, redis, ord))
    /\ pc' = "done"
    /\ UNCHANGED <<aliases, queries>>

NextReference == ValidateReference \/ ResolveReference \/ Respond \/ ExpireAll

SpecReference == Init /\ [][NextReference]_vars

---------------------------------------------------------------------------
(* utils/queue.py: use_queue_for_resource and wait_for_slot.  Each call of *)
(* the wrapper is a task; redis holds the waiting list and the used-slots  *)
(* counter of one resource.  A block `async with redis.lock(lock_key, 30)` *)
(* is one step: the lock keeps the blocks of different tasks apart.  A     *)
(* task can be cancelled at any await; when it is cancelled inside a block *)
(* the command of the block has reached the server or has not.             *)

MaxTasks == 3
QueueLimit == 1

Tasks == 1..MaxTasks

\* the locals of a call: seq is the position at which the task was appended to the
\* waiting list (0: not yet), wait tells how wait_for_slot ended, grant is the
\* order in which it returned, incs / decs count the INCR / DECR of the call that
\* reached the server
NewTask ==
    [seq |-> 0, wait |-> "", grant |-> 0, incs |-> 0, decs |-> 0]

\* LREM key 0 task
Lrem(list, task) == SelectSeq(list, LAMBDA x : x # task)

\* LINDEX key 0
Lindex0(list) == IF list = <<>> THEN 0 ELSE list[1]

Appended == {t \in Tasks : result[t].seq > 0}
Granted == {t \in Tasks : result[t].grant > 0}

TaskStep(t, label, locals) ==
    /\ pc' = [pc EXCEPT ![t] = label]
    /\ result' = [result EXCEPT ![t] = locals]
    /\ UNCHANGED <<aliases, queries>>

\* wrapper, lines 94-103: the keys, the task id, the logged lengths
Call(t) ==
    /\ pc[t] = "idle"
    /\ TaskStep(t, "enqueue", result[t])
    /\ UNCHANGED redis

\* wait_for_slot, lines 53-54: rpush under the lock
Enqueue(t) ==
    /\ pc[t] = "enqueue"
    /\ redis' = [redis EXCEPT !.waiting = Append(@, t)]
    /\ TaskStep(t, "poll_used", [result[t] EXCEPT !.seq = 1 + Cardinality(Appended)])

\* lines 58-62: used_slots is read under the lock, then compared with limit
PollUsed(t) ==
    /\ pc[t] = "poll_used"
    /\ TaskStep(t, IF redis.active < QueueLimit THEN "poll_first" ELSE "sleep", result[t])
    /\ UNCHANGED redis

\* a poll that takes the free slot whoever is first in the list
PollFirst_AnyPosition(t) ==
    /\ pc[t] = "poll_first"
    /\ TaskStep(t, "leave", result[t])
    /\ UNCHANGED redis

\* lines 63-66: the head of the list is read under the lock; return if it is the task
PollFirst(t) ==
    /\ pc[t] = "poll_first"
    /\ TaskStep(t, IF Lindex0(redis.waiting) = t THEN "leave" ELSE "sleep", result[t])
    /\ UNCHANGED redis

\* line 67 and the loop condition of line 58: after the sleep the timeout has
\* passed or it has not
Sleep(t) ==
    /\ pc[t] = "sleep"
    /\ \E timed_out \in BOOLEAN :
        TaskStep(t, IF timed_out THEN "timeout_lrem" ELSE "poll_used", result[t])
    /\ UNCHANGED redis

\* lines 70-72: lrem under the lock, then raise RedisQueueTimeoutError
TimeoutLrem(t) ==
    /\ pc[t] = "timeout_lrem"
    /\ redis' = [redis EXCEPT !.waiting = Lrem(@, t)]
    /\ TaskStep(t, "cleanup", [result[t] EXCEPT !.wait = "timeout"])

\* lines 77-79 after the return of line 66: lrem under the lock; wait_for_slot
\* returns to the wrapper
Leave(t) ==
    /\ pc[t] = "leave"
    /\ redis' = [redis EXCEPT !.waiting = Lrem(@, t)]
    /\ TaskStep(t, "incr", [result[t] EXCEPT !.wait = "granted",
                                              !.grant = 1 + Cardinality(Granted)])

\* lines 77-79 while an exception leaves wait_for_slot: lrem under the lock; the
\* exception leaves the wrapper
Cleanup(t) ==
    /\ pc[t] = "cleanup"
    /\ redis' = [redis EXCEPT !.waiting = Lrem(@, t)]
    /\ TaskStep(t, "ended", result[t])

\* wrapper, lines 107-108: incr under the lock
Incr(t) ==
    /\ pc[t] = "incr"
    /\ redis' = [redis EXCEPT !.active = @ + 1]
    /\ TaskStep(t, "run", [result[t] EXCEPT !.incs = @ + 1])

\* lines 110-114: the wrapped function returns, or an exception leaves the try (one
\* of the function, or the TimeoutError of wait_for after exec_timeout); the
\* finally of line 118 runs either way
Finish(t) ==
    /\ pc[t] = "run"
    /\ TaskStep(t, "release", result[t])
    /\ UNCHANGED redis

\* lines 118-123: decr under the lock
Release(t) ==
    /\ pc[t] = "release"
    /\ redis' = [redis EXCEPT !.active = @ - 1]
    /\ TaskStep(t, "ended", [result[t] EXCEPT !.decs = @ + 1])

\* the task is cancelled while it waits in the loop of wait_for_slot: CancelledError
\* is raised at the await, lines 75-79 run
CancelWaiting(t) ==
    /\ pc[t] \in {"poll_used", "poll_first", "sleep", "timeout_lrem"}
    /\ \E sent \in BOOLEAN :
        redis' = IF sent /\ pc[t] = "timeout_lrem"
                 THEN [redis EXCEPT !.waiting = Lrem(@, t)] ELSE redis
    /\ TaskStep(t, "cleanup", [result[t] EXCEPT !.wait = "cancelled"])

\* the task is cancelled at the await of lines 53-54, before the try of line 56
CancelEnqueue(t) ==
    /\ pc[t] = "enqueue"
    /\ \E sent \in BOOLEAN :
        /\ redis' = IF sent THEN [redis EXCEPT !.waiting = Append(@, t)] ELSE redis
        /\ TaskStep(t, "ended",
                    [result[t] EXCEPT !.seq = IF sent THEN 1 + Cardinality(Appended) ELSE 0,
                                      !.wait = "cancelled"])

\* the task is cancelled at the await of the finally of lines 77-79
CancelCleanup(t) ==
    /\ pc[t] \in {"leave", "cleanup"}
    /\ \E sent \in BOOLEAN :
        redis' = IF sent THEN [redis EXCEPT !.waiting = Lrem(@, t)] ELSE redis
    /\ TaskStep(t, "ended", [result[t] EXCEPT !.wait = "cancelled"])

\* the task is cancelled at the await of lines 107-108, before the try of line 110
CancelIncr(t) ==
    /\ pc[t] = "incr"
    /\ \E sent \in BOOLEAN :
        /\ redis' = IF sent THEN [redis EXCEPT !.active = @ + 1] ELSE redis
        /\ TaskStep(t, "ended", [result[t] EXCEPT !.incs = IF sent THEN @ + 1 ELSE @])

\* the task is cancelled while the wrapped function runs: lines 115-123 run
CancelRun(t) ==
    /\ pc[t] = "run"
    /\ TaskStep(t, "release", result[t])
    /\ UNCHANGED redis

\* the task is cancelled at the await of the finally of lines 118-122
CancelRelease(t) ==
    /\ pc[t] = "release"
    /\ \E sent \in BOOLEAN :
        /\ redis' = IF sent THEN [redis EXCEPT !.active = @ - 1] ELSE redis
        /\ TaskStep(t, "ended", [result[t] EXCEPT !.decs = IF sent THEN @ + 1 ELSE @])

InitQueue ==
    /\ redis = [waiting |-> <<>>, active |-> 0]
    /\ aliases = {}
    /\ queries = {}
    /\ pc = [t \in Tasks |-> "idle"]
    /\ result = [t \in Tasks |-> NewTask]

NextQueue ==
    \E t \in Tasks :
        \/ Call(t) \/ Enqueue(t) \/ PollUsed(t) \/ PollFirst(t) \/ Sleep(t)
        \/ TimeoutLrem(t) \/ Leave(t) \/ Cleanup(t) \/ Incr(t) \/ Finish(t) \/ Release(t)
        \/ CancelWaiting(t) \/ CancelEnqueue(t) \/ CancelCleanup(t) \/ CancelIncr(t)
        \/ CancelRun(t) \/ CancelRelease(t)

SpecQueue == InitQueue /\ [][NextQueue]_vars

---------------------------------------------------------------------------
(* utils/queue.py: lock_for_same_user.  redis is the set of users whose    *)
(* key queue:<resource>:<user_id> is present; each call of the wrapper is  *)
(* a task, every redis command is an await.                                *)

\* the locals of a call: overlap tells whether another call of the same user was
\* past its redis.get and not yet ended when this call read the key
NewCall(user) == [user |-> user, overlap |-> FALSE, end |-> ""]

Holding(t) == pc[t] \in {"set", "run", "delete"}
OthersHolding(t, user) == \E o \in Tasks \ {t} : Holding(o) /\ result[o].user = user

\* lines 136-137: user_id, user_specific_key
UserCall(t) ==
    /\ pc[t] = "idle"
    /\ \E user \in Users : TaskStep(t, "get", NewCall(user))
    /\ UNCHANGED redis

\* lines 138-139 and 151-153: locked = await redis.get(key); raise when it is set
GetLocked(t) ==
    /\ pc[t] = "get"
    /\ IF result[t].user \in redis
       THEN TaskStep(t, "ended", [result[t] EXCEPT !.end = "RedisQueueResourceIsAlreadyUsed"])
       ELSE TaskStep(t, "set", [result[t] EXCEPT !.overlap = OthersHolding(t, result[t].user)])
    /\ UNCHANGED redis

\* line 141: await redis.set(key, 1)
SetLocked(t) ==
    /\ pc[t] = "set"
    /\ redis' = redis \cup {result[t].user}
    /\ TaskStep(t, "run", result[t])

\* lines 143-147: the wrapped function returns or raises
FinishLocked(t) ==
    /\ pc[t] = "run"
    /\ \E how \in {"return", "exception"} : TaskStep(t, "delete", [result[t] EXCEPT !.end = how])
    /\ UNCHANGED redis

\* lines 148-150: await redis.delete(key)
DeleteLocked(t) ==
    /\ pc[t] = "delete"
    /\ redis' = redis \ {result[t].user}
    /\ TaskStep(t, "ended", result[t])

\* the task is cancelled at an await: at the get; at the set (before the try of
\* line 143), the command sent or not; in the function, where the finally runs;
\* at the delete, the command sent or not
CancelLocked(t) ==
    /\ pc[t] \in {"get", "set", "run", "delete"}
    /\ \E sent \in BOOLEAN :
        redis' = CASE pc[t] = "set" /\ sent -> redis \cup {result[t].user}
                   [] pc[t] = "delete" /\ sent -> redis \ {result[t].user}
                   [] OTHER -> redis
    /\ TaskStep(t, IF pc[t] = "run" THEN "delete" ELSE "ended",
                [result[t] EXCEPT !.end = "cancelled"])

InitLock ==
    /\ redis = {}
    /\ aliases = {}
    /\ queries = {}
    /\ pc = [t \in Tasks |-> "idle"]
    /\ result = [t \in Tasks |-> NoResult]

NextLock ==
    \E t \in Tasks :
        \/ UserCall(t) \/ GetLocked(t) \/ SetLocked(t) \/ FinishLocked(t)
        \/ DeleteLocked(t) \/ CancelLocked(t)

SpecLock == InitLock /\ [][NextLock]_vars

---------------------------------------------------------------------------
(* routers/user.py and utils/security.py: login, logout, refresh and
   get_current_user.  A session is a hash in redis with the access token and
   the refresh token last issued for it.  A client is a caller that keeps the
   token pair of its last login or refresh and presents one of the two. *)

MaxLogins == 2
Clients == {1, 2}
NoUser == 0
Usernames == Users \cup {NoUser}
TokenKinds == {"access_token", "refresh_token"}

\* jwt.encode of the payload: the secret is that of the kind, exp is the time of issue
\* plus a fixed lifetime
create_access_token(user_id, session_id, exp, refresh) ==
    [user_id |-> user_id, session_id |-> session_id, exp |-> exp, refresh |-> refresh]

create_access_and_refresh(user_id, session_id, exp) ==
    [access_token |-> create_access_token(user_id, session_id, exp, FALSE),
     refresh_token |-> create_access_token(user_id, session_id, exp, TRUE)]

\* jwt.decode with the secret of the other kind raises InvalidTokenError
exctract_token_data(token, refresh) ==
    IF token.refresh = refresh
    THEN [err |-> "", user_id |-> token.user_id, session_id |-> token.session_id]
    ELSE [err |-> "CredentialsException", user_id |-> NoUser, session_id |-> None]

SessionKey(prefix, user_id, session_id) ==
    [prefix |-> prefix, user_id |-> user_id, session_id |-> session_id]

EmptyHash == [access_token |-> None, refresh_token |-> None]

Hgetall(r, key) == IF key \in DOMAIN r THEN r[key] ELSE EmptyHash

Hset(r, key, mapping) == [k \in DOMAIN r \cup {key} |-> IF k = key THEN mapping ELSE r[k]]

HashDelete(r, key) == [k \in DOMAIN r \ {key} |-> r[k]]

get_current_user(r, access_token) ==
    IF exctract_token_data(access_token, FALSE).err # ""
    THEN [err |-> exctract_token_data(access_token, FALSE).err, user |-> NoUser]
    ELSE IF Hgetall(r, SessionKey("user_session", access_token.user_id,
                                  access_token.session_id)) = EmptyHash
    THEN [err |-> "LoggedOutException", user |-> NoUser]
    ELSE IF Hgetall(r, SessionKey("user_session", access_token.user_id,
                                  access_token.session_id)).access_token = access_token
    THEN IF access_token.user_id \in Users
         THEN [err |-> "", user |-> access_token.user_id]
         ELSE [err |-> "User not found", user |-> NoUser]
    ELSE [err |-> "TokenExpiredException", user |-> NoUser]

NewClient ==
    [op |-> "none", logins |-> 0, issued |-> 0, access_token |-> None,
     refresh_token |-> None, sent |-> None, err |-> "", response |-> None]

Responded(c, op, sent, err, response) ==
    [result[c] EXCEPT !.op = op, !.sent = sent, !.err = err, !.response = response]

\* the session id of a login is a fresh uuid
NewSessionId(c) == <<c, result[c].logins + 1>>

login(c) ==
    \E username \in Usernames, password_ok \in BOOLEAN :
        /\ result[c].logins < MaxLogins
        /\ IF username = NoUser
           THEN /\ result' = [result EXCEPT ![c] =
                        Responded(c, "login", None, "UserDoesNotExist", None)]
                /\ UNCHANGED <<redis, pc>>
           ELSE IF ~password_ok
           THEN /\ result' = [result EXCEPT ![c] =
                        Responded(c, "login", None, "CredentialsException", None)]
                /\ UNCHANGED <<redis, pc>>
           ELSE /\ redis' = Hset(redis, SessionKey("user_session", username, NewSessionId(c)),
                                 create_access_and_refresh(username, NewSessionId(c),
                                                           result[c].issued + 1))
                /\ result' = [result EXCEPT ![c] =
                        [op |-> "login", logins |-> result[c].logins + 1,
                         issued |-> result[c].issued + 1,
                         access_token |-> create_access_and_refresh(username, NewSessionId(c),
                                              result[c].issued + 1).access_token,
                         refresh_token |-> create_access_and_refresh(username, NewSessionId(c),
                                              result[c].issued + 1).refresh_token,
                         sent |-> None, err |-> "",
                         response |-> create_access_and_refresh(username, NewSessionId(c),
                                              result[c].issued + 1)]]
                /\ pc' = [pc EXCEPT ![c] = "session"]
        /\ UNCHANGED <<aliases, queries>>

logout(c) ==
    \E kind \in TokenKinds :
        /\ pc[c] # "anonymous"
        /\ IF exctract_token_data(result[c][kind], FALSE).err # ""
           THEN /\ result' = [result EXCEPT ![c] =
                        Responded(c, "logout", result[c][kind],
                                  exctract_token_data(result[c][kind], FALSE).err, None)]
                /\ UNCHANGED <<redis, pc>>
           ELSE /\ redis' = HashDelete(redis, SessionKey("user_session", result[c][kind].user_id,
                                                      result[c][kind].session_id))
                /\ result' = [result EXCEPT ![c] =
                        Responded(c, "logout", result[c][kind], "", None)]
                /\ pc' = [pc EXCEPT ![c] = "logged_out"]
        /\ UNCHANGED <<aliases, queries>>

\* the pair refresh answers with when the token it was given is the one in user_data
Renewed(c, token) == create_access_and_refresh(token.user_id, token.session_id,
                                               result[c].issued + 1)

refresh(c) ==
    \E kind \in TokenKinds :
        /\ pc[c] # "anonymous"
        /\ IF exctract_token_data(result[c][kind], TRUE).err # ""
           THEN /\ result' = [result EXCEPT ![c] =
                        Responded(c, "refresh", result[c][kind],
                                  exctract_token_data(result[c][kind], TRUE).err, None)]
                /\ UNCHANGED redis
           ELSE IF Hgetall(redis, SessionKey("user", result[c][kind].user_id,
                                             result[c][kind].session_id)).refresh_token
                   = result[c][kind]
           THEN /\ redis' = Hset(redis, SessionKey("user", result[c][kind].user_id,
                                                   result[c][kind].session_id),
                                 Renewed(c, result[c][kind]))
                /\ result' = [result EXCEPT ![c] =
                        [op |-> "refresh", logins |-> result[c].logins,
                         issued |-> result[c].issued + 1,
                         access_token |-> Renewed(c, result[c][kind]).access_token,
                         refresh_token |-> Renewed(c, result[c][kind]).refresh_token,
                         sent |-> result[c][kind], err |-> "",
                         response |-> Renewed(c, result[c][kind])]]
           ELSE /\ result' = [result EXCEPT ![c] =
                        Responded(c, "refresh", result[c][kind], "LoggedOutException", None)]
                /\ UNCHANGED redis
        /\ UNCHANGED <<aliases, queries, pc>>

\* GET /users/me, a route behind get_current_user
whoami(c) ==
    \E kind \in TokenKinds :
        /\ pc[c] # "anonymous"
        /\ result' = [result EXCEPT ![c] =
                Responded(c, "whoami", result[c][kind],
                          get_current_user(redis, result[c][kind]).err,
                          get_current_user(redis, result[c][kind]).user)]
        /\ UNCHANGED <<redis, aliases, queries, pc>>

InitSession ==
    /\ redis = <<>>
    /\ aliases = {}
    /\ queries = {}
    /\ pc = [c \in Clients |-> "anonymous"]
    /\ result = [c \in Clients |-> NewClient]

NextSession ==
    \E c \in Clients : login(c) \/ logout(c) \/ refresh(c) \/ whoami(c)

SpecSession == InitSession /\ [][NextSession]_vars

---------------------------------------------------------------------------
(* Properties                                                              *)

FetchDone == pc = "done" /\ result.op = "fetch"
CompileDone == pc = "done" /\ result.op = "compile"
ScalarizeDone == pc = "done" /\ result.op = "scalarize"

\* the direct child nodes of an expression node, input or resolved
Kids(node) ==
    CASE node.type \in {"op", "and_or", "compare", "in"} -> {node.left, node.right}
      [] node.type \in {"not", "isnull"} -> {node.operand}
      [] node.type = "between" -> {node.expr, node.upper, node.lower}
      [] node.type = "func" -> {node.args[i] : i \in 1..Len(node.args)}
      [] node.type = "case" ->
            {node.cases[i].case : i \in 1..Len(node.cases)}
                \cup {node.cases[i].then : i \in 1..Len(node.cases)} \cup {node.default}
      [] OTHER -> {}

\* the node and every node below it
RECURSIVE Subnodes(_)
Subnodes(node) == {node} \cup UNION {Subnodes(k) : k \in Kids(node)}

\* the expressions of a query (input or resolved) outside the FROM and JOIN table positions
ConditionRoots(q) ==
    (IF "expression" \in DOMAIN q.where THEN {q.where.expression} ELSE {})
        \cup (IF "expression" \in DOMAIN q.having THEN {q.having.expression} ELSE {})
        \cup (IF "on_condition" \in DOMAIN q.select.join_clause
              THEN {q.select.join_clause.on_condition} ELSE {})
ItemRoots(q) ==
    (IF "items" \in DOMAIN q.groupby
     THEN {q.groupby.items[i] : i \in 1..Len(q.groupby.items)} ELSE {})
        \cup (IF "items" \in DOMAIN q.orderby
              THEN {q.orderby.items[i].operand : i \in 1..Len(q.orderby.items)} ELSE {})
ColumnRoots(q) == {q.select.columns[i] : i \in 1..Len(q.select.columns)}
ExpressionNodes(q) == UNION {Subnodes(e) : e \in ConditionRoots(q) \cup ItemRoots(q)}

\* the stored queries an input subquery reference (by id) names
ReferredQueries(sub) == {row \in queries : row.query_id = sub.query_id}
IsWideSubquery(node) ==
    node.type = "subquery" /\ \E row \in ReferredQueries(node) : row.col_count # 1

\* C1: a fetch by one owner for an object of another owner fails with the
\* not-found condition and never returns an object of another owner.
C1_FetchIsOwnerScoped ==
    FetchDone =>
        LET idf == IdField(result.kind)
            nf == NameField(result.kind)
            asked == {row \in result.store :
                        IF result.id # 0 THEN row[idf] = result.id ELSE row[nf] = result.name}
            mine == {row \in asked : row.owner_id = result.user}
        IN  /\ result.err = "" => result.obj.owner_id = result.user
            /\ (asked # {} /\ mine = {}) => result.err = NotExists(result.kind)

\* C2: compilation fails with the improper-aggregate condition, and yields no SQL,
\* whenever the resolved WHERE condition, the resolved JOIN on-condition or one of
\* the resolved GROUP BY items is aggregate.
C2_Select == SelectFromInput(result.inp.select, result.user, result.before, result.ord)
C2_JoinCondition ==
    LET from_ == from_input(result.inp.select.from_, result.user, result.before, result.ord)
        columns == ListFromInput(result.inp.select.columns, result.user, from_.redis, result.ord)
    IN  IF from_.err # "" THEN from_
        ELSE IF columns.err # "" THEN columns
        ELSE from_input(result.inp.select.join_clause.on_condition, result.user,
                        columns.redis, result.ord)
C2_WhereCondition ==
    from_input(result.inp.where.expression, result.user, C2_Select.redis, result.ord)
C2_Where ==
    IF result.inp.where # None
    THEN WhereFromInput(result.inp.where, result.user, C2_Select.redis, result.ord)
    ELSE Ok(EmptyClause, C2_Select.redis)
C2_GroupByItems ==
    ListFromInput(result.inp.groupby.items, result.user, C2_Where.redis, result.ord)
C2_Rejected ==
    result.err = "_ImproperAggregateUse" /\ result.sql = <<>> /\ result.query = None

ReferencesAggregateAlias(node) ==
    \E n \in Subnodes(node) : n.type = "aliased" /\ n.alias.is_aggregate

C3_HavingCondition ==
    from_input(result.inp.having.expression, result.user, C2_Select.redis, result.ord)

C3_WhereRejectsHavingAccepts ==
    CompileDone =>
        /\ (result.inp.where # None /\ C2_Select.err = "" /\ C2_WhereCondition.err = ""
                /\ ReferencesAggregateAlias(C2_WhereCondition.node))
            => result.err = "_ImproperAggregateUse"
        /\ (result.inp.having # None /\ C2_Select.err = "" /\ C3_HavingCondition.err = "")
            => result.err = ""

\* C4: a query with a subquery of col_count # 1 as an operand inside an
\* expression, as an ORDER BY item or as a SELECT column does not compile.
HasWideOperand(inp) ==
    \/ \E n \in ExpressionNodes(inp) :
        \/ n.type \in {"op", "compare", "func", "between", "isnull"}
            /\ \E k \in Kids(n) : IsWideSubquery(k)
        \/ n.type = "case" /\ \E i \in 1..Len(n.cases) : IsWideSubquery(n.cases[i].then)
    \/ "items" \in DOMAIN inp.orderby
        /\ \E i \in 1..Len(inp.orderby.items) : IsWideSubquery(inp.orderby.items[i].operand)
    \/ \E c \in ColumnRoots(inp) : IsWideSubquery(c)

C4_WideOperandRejected ==
    CompileDone /\ HasWideOperand(result.inp) => result.err # "" /\ result.sql = <<>>

\* C5: in a compiled query the FROM and JOIN aliases are tables, and the aliases
\* inside expressions are not.
C5_AliasKinds ==
    CompileDone /\ result.err = "" =>
        LET q == result.query
        IN  /\ q.select.from_.type = "aliased" => q.select.from_.alias.is_table
            /\ ("table" \in DOMAIN q.select.join_clause
                    /\ q.select.join_clause.table.type = "aliased")
                => q.select.join_clause.table.alias.is_table
            /\ \A n \in ExpressionNodes(q) : n.type = "aliased" => ~n.alias.is_table

\* C6: a composite node is aggregate exactly when it is an aggregate function call
\* or one of its children is aggregate; literals and intervals never are.
C6_AggregatePropagation ==
    CompileDone /\ result.err = "" =>
        \A n \in ExpressionNodes(result.query) :
            /\ n.type \in {"literal", "interval"} => ~is_aggregate(n)
            /\ n.type \in {"op", "and_or", "compare", "in", "not", "isnull", "between",
                           "func", "case"}
                => (is_aggregate(n) <=>
                        \/ n.type = "func" /\ n.func \in AggregatesEnum
                        \/ \E k \in Kids(n) : is_aggregate(k))

\* C7: a query with an IN expression over a subquery of col_count # 1 does not compile.
C7_WideInRejected ==
    (CompileDone /\ \E n \in ExpressionNodes(result.inp) :
                        n.type = "in" /\ IsWideSubquery(n.right))
        => result.err # "" /\ result.sql = <<>>

\* C8: a query with a table reference inside an expression does not compile.
C8_TableOperandRejected ==
    (CompileDone /\ \E n \in ExpressionNodes(result.inp) : n.type = "table")
        => result.err # "" /\ result.sql = <<>>

\* C9: a single-column subquery without LIMIT, compiled as the operand of a
\* comparison, renders as the query text without its `;`, then LIMIT 1, in parentheses.
C9_ScalarSubqueryRendering ==
    CompileDone /\ result.err = "" =>
        \A n \in ExpressionNodes(result.query) :
            n.type = "compare" =>
                \A k \in Kids(n) :
                    (k.type = "subquery" /\ k.query.col_count = 1
                            /\ k.query.query_sql = SQL_ONE_COL)
                        => sql(k) = Paren(SubSeq(SQL_ONE_COL, 1, Len(SQL_ONE_COL) - 1)
                                            \o KW_LIMIT_1)

\* C10: Query.scalarize on a single-column query fails when the text ends in a
\* LIMIT clause with a literal other than 1, returns the text without its trailing
\* `;` when the literal is 1, appends LIMIT 1 when there is no LIMIT clause, and
\* leaves the stored row as it was.
LiteralOf(digits) ==
    CASE digits = <<"1">> -> 1 [] digits = <<"5">> -> 5
      [] digits = <<"0", "1">> -> 1 [] digits = <<"1", "0">> -> 10
EndsInLimitClause(p) ==
    /\ p.kw \in {KW.limit, KW_limit}
    /\ p.digits # <<>>
    /\ p.offset \in {<<>>, SP \o KW.offset \o SP \o <<"0">>}
    /\ p.trail = <<>>
WithoutSemis(p) == BuildSql([p EXCEPT !.semis = 0])

SubqueryCalled(r) == r.op = "subquery" /\ r.calls >= 1 /\ r.err = ""

C11_RescalarizeSame ==
    (pc = "done" /\ result.op = "rescalarize") =>
        /\ result.first.col_count = 1
        /\ result.out = [err |-> "", sql |-> result.previous]
        /\ \A p \in LimitShapes :
            (result.first.query_sql = BuildSql(p) /\ EndsInLimitClause(p)) =>
                result.out.sql = WithoutSemis(p)

C11_RepeatedCallSame ==
    (SubqueryCalled(result) /\ result'.op = "subquery" /\ result'.calls = result.calls + 1) =>
        /\ result'.err = ""
        /\ sql(result'.node) = sql(result.node)

C11_ScalarizeIdempotent == [](C11_RescalarizeSame) /\ [][C11_RepeatedCallSame]_vars

C11_Witness ==
    /\ pc = "done"
    /\ result.op = "rescalarize"
    /\ result.first.query_sql = SQL_BODY \o <<";", ";">>
    /\ result.previous = SQL_BODY \o KW_LIMIT_1
    /\ result.out = [err |-> "", sql |-> SQL_BODY \o KW_LIMIT_1]

\* C12: within the SELECT clause the FROM target is resolved first and the JOIN
\* clause second, before any output column: when the JOIN clause fails after the
\* FROM target resolved, the compilation fails with the JOIN clause's failure and
\* the cache is as the JOIN clause's last lookup left it (no column was looked up).
JoinAfterFrom(user, inp, ord, from_) ==
    IF from_.err # "" THEN from_ ELSE JoinFromInput(inp.select.join_clause, user, from_.redis, ord)

JoinFailsAfterFrom(user, inp, ord, join) ==
    join.err # "" =>
        /\ result.err = join.err
        /\ result.detail = join.detail
        /\ redis = join.redis

C12_ResolutionOrder ==
    (CompileDone /\ result.inp.select.join_clause # None) =>
        JoinFailsAfterFrom(result.user, result.inp, result.ord,
            JoinAfterFrom(result.user, result.inp, result.ord,
                from_input(result.inp.select.from_, result.user, result.before, result.ord)))

\* C13: a compilation in which a node fails to resolve (a reference that is not
\* found, an aggregate where none is allowed) ends with that failure, with no
\* resolved query and no SQL text, and the cache is as the lookups before the
\* failure left it: no lookup follows the failing one.

\* the references of an input node, in the order from_input awaits them
RECURSIVE Lookups(_)
RECURSIVE LookupsOfList(_)
RECURSIVE LookupsOfCases(_)
LookupsOfList(items) ==
    IF items = <<>> THEN <<>> ELSE Lookups(Head(items)) \o LookupsOfList(Tail(items))
LookupsOfCases(cases) ==
    IF cases = <<>> THEN <<>>
    ELSE Lookups(Head(cases).case) \o Lookups(Head(cases).then) \o LookupsOfCases(Tail(cases))
Lookups(inp) ==
    CASE inp.type \in {"aliased", "subquery"} -> <<inp>>
      [] inp.type \in {"op", "and_or", "compare", "in"} -> Lookups(inp.left) \o Lookups(inp.right)
      [] inp.type \in {"not", "isnull"} -> Lookups(inp.operand)
      [] inp.type = "func" -> LookupsOfList(inp.args)
      [] inp.type = "between" -> Lookups(inp.expr) \o Lookups(inp.upper) \o Lookups(inp.lower)
      [] inp.type = "case" -> LookupsOfCases(inp.cases) \o Lookups(inp.default)
      [] OTHER -> <<>>

\* the references of an input query up to the check named by stage
ColumnLookups(q) == Lookups(q.select.from_) \o LookupsOfList(q.select.columns)
JoinConditionLookups(q) ==
    IF q.select.join_clause # None THEN Lookups(q.select.join_clause.on_condition) ELSE <<>>
JoinTableLookups(q) ==
    IF q.select.join_clause # None THEN Lookups(q.select.join_clause.table) ELSE <<>>
WhereLookups(q) == IF q.where # None THEN Lookups(q.where.expression) ELSE <<>>
GroupByLookups(q) == IF q.groupby # None THEN LookupsOfList(q.groupby.items) ELSE <<>>
HavingLookups(q) == IF q.having # None THEN Lookups(q.having.expression) ELSE <<>>
OrderByLookups(q) ==
    IF q.orderby # None
    THEN LookupsOfList([i \in 1..Len(q.orderby.items) |-> q.orderby.items[i].operand])
    ELSE <<>>
LookupsUntil(q, stage) ==
    ColumnLookups(q) \o JoinConditionLookups(q)
        \o (IF stage = "JOIN" THEN <<>>
            ELSE JoinTableLookups(q) \o WhereLookups(q)
                \o (IF stage = "WHERE" THEN <<>>
                    ELSE GroupByLookups(q)
                        \o (IF stage = "GROUP BY" THEN <<>>
                            ELSE HavingLookups(q) \o OrderByLookups(q))))
AllLookups(q) == LookupsUntil(q, "end")

\* the fetches of refs one after the other, up to the first that fails
RECURSIVE Replay(_, _, _, _)
ReplayRest(f, rest, user, ord) ==
    IF f.err # "" THEN [err |-> f.err, detail |-> f.detail, redis |-> f.redis]
    ELSE Replay(rest, user, f.redis, ord)
Replay(refs, user, r, ord) ==
    IF refs = <<>> THEN [err |-> "", detail |-> "", redis |-> r]
    ELSE ReplayRest(IF Head(refs).type = "aliased"
                    THEN AliasFetch(Head(refs).alias_id, Head(refs).alias_name, user, r, ord)
                    ELSE QueryFetch(Head(refs).query_id, Head(refs).query_name, user, r, ord),
                    Tail(refs), user, ord)

RefersToMissingAlias(q) == \E i \in 1..Len(AllLookups(q)) : AllLookups(q)[i] = ById(5)

NewQueryDone == pc = "done" /\ result.op = "new_query"

C14_PersistAfterCompile ==
    NewQueryDone =>
        /\ result.store \subseteq queries
        /\ queries # result.store =>
            /\ result.compiled = ""
            /\ result.executed = "ok"
            /\ result.out.err = ""
            /\ \E row \in queries \ result.store :
                /\ queries = result.store \cup {row}
                /\ row.owner_id = result.user
                /\ row.name = result.name
                /\ row.query_sql =
                        SelectQuerySql(SelectQueryFromInput(result.inp, result.user,
                                                            result.before, "asc").node)
        /\ (result.compiled # "" \/ result.executed # "ok") =>
            (queries = result.store /\ result.out.err # "")

C14_Witness ==
    /\ NewQueryDone
    /\ result.inp = Query(BaseSelect, None, None, HavingClauseInput(ById(3)), None, None)
    /\ result.out.err = ""
    /\ Cardinality(queries) = Cardinality(result.store) + 1
    /\ \E row \in queries : row.query_id = 4 /\ row.owner_id = result.user
                            /\ row.name = <<"c">>

\* C15: when a fetch that missed the cache and found the object in the store
\* completes, the cache holds the object's JSON under the real key built from its
\* id, owner and name, the id pointer and the name pointer both hold that real key,
\* the three entries were set with the same expiry of 3600 seconds, and the fetch
\* wrote the real key first.
FetchedFromStore(r) == At(r, "done") /\ result[r].op = "fetch" /\ result[r].from = "store"

KeysOf(kind, obj) ==
    <<RealKey(kind, obj[IdField(kind)], obj.owner_id, obj[NameField(kind)]),
      IdPointerKey(kind, obj[IdField(kind)]),
      NamePointerKey(kind, obj.owner_id, obj[NameField(kind)])>>

CachedAs(keys, json) ==
    /\ \A i \in 1..3 : keys[i] \in DOMAIN redis /\ redis[keys[i]].ex = 3600
    /\ redis[keys[1]].val = json
    /\ redis[keys[2]].val = keys[1]
    /\ redis[keys[3]].val = keys[1]

C15_CachePopulated ==
    \A r \in Reqs :
        FetchedFromStore(r) =>
            /\ result[r].written = KeysOf(result[r].kind, result[r].obj)
            /\ CachedAs(KeysOf(result[r].kind, result[r].obj),
                        DumpJson(result[r].kind, result[r].obj))

C15_Witness ==
    /\ FetchedFromStore(1)
    /\ result[1].user = 1
    /\ result[1].name = <<"c">>
    /\ result[1].obj = AliasRow(2, 1, <<"c">>, COL_OX, FALSE, FALSE)
    /\ result[1].stalled
    /\ redis[IdPointerKey("alias", 2)].val = RealKey("alias", 2, 1, <<"c">>)
    /\ redis[NamePointerKey("alias", 1, <<"c">>)].age = 0

\* C18: a fetch returns an object that del_alias / del_query has removed from the
\* store only within the 3600 seconds that follow the removal.
ReturnsRemoved(r, d) ==
    /\ At(r, "done")
    /\ result[r].op = "fetch"
    /\ result[r].err = ""
    /\ result[d].op = "del"
    /\ result[r].kind = result[d].kind
    /\ result[r].obj \in result[d].removed

C18_StaleWithinTTL ==
    \A r \in Reqs, d \in Reqs : ReturnsRemoved(r, d) => result[d].since < 3600

\* C16: when the pointer key is absent, or the real key it names is absent, or the
\* cached record belongs to another owner, the outcome of the fetch is that of the
\* store lookup scoped by owner: the requester's object is returned and cached
\* under its three keys, or the fetch fails with the not-found condition and the
\* cache is as it was.
PointerKeyOf(f) ==
    IF f.id # 0 THEN IdPointerKey(f.kind, f.id) ELSE NamePointerKey(f.kind, f.user, f.name)

CacheMiss(f) ==
    \/ ~Cached(f.before, PointerKeyOf(f))
    \/ ~Cached(f.before, f.before[PointerKeyOf(f)].val)
    \/ ValidateJson(f.kind, f.before[f.before[PointerKeyOf(f)].val].val).owner_id # f.user

ScopedByOwner(f) ==
    {row \in f.store :
        /\ row.owner_id = f.user
        /\ IF f.id # 0 THEN row[IdField(f.kind)] = f.id ELSE row[NameField(f.kind)] = f.name}

C16_MissFallsThrough ==
    (FetchDone /\ CacheMiss(result)) =>
        IF ScopedByOwner(result) = {}
        THEN result.err = NotExists(result.kind) /\ redis = result.before
        ELSE /\ result.err = ""
             /\ result.detail = "store"
             /\ result.obj \in ScopedByOwner(result)
             /\ CachedAs(KeysOf(result.kind, result.obj), DumpJson(result.kind, result.obj))

\* C17: from any cache state, a fetch of an owner's own object by its id followed
\* by a fetch by its name, or by its name followed by one by its id, both succeed
\* and return equal objects.
\* the fetch of row by the dimension that f did not use, after f
FetchOtherWay(f, row, ord) ==
    IF f.id # 0 THEN Fetch(f.kind, 0, row[NameField(f.kind)], f.user, redis, ord)
    ELSE Fetch(f.kind, row[IdField(f.kind)], <<>>, f.user, redis, ord)

SameObject(f, second) == f.err = "" /\ second.err = "" /\ second.obj = f.obj

C17_IdAndNameAgree ==
    FetchDone =>
        \A row \in ScopedByOwner(result), ord \in ScanOrders :
            SameObject(result, FetchOtherWay(result, row, ord))

\* C19: the text of a compiled query is the fragments of its present clauses in
\* the order SELECT ... FROM, JOIN, WHERE, GROUP BY, HAVING, ORDER BY, LIMIT, with
\* nothing but spaces between them (an absent clause adds no text), no whitespace
\* before the terminator, and exactly one `;`, which is its last character.

\* the text with every run of spaces reduced to one space
WithPrevious(s) == [i \in 1..Len(s) |-> <<s[i], IF i > 1 THEN s[i - 1] ELSE "">>]
KeptOf(pairs) == [i \in 1..Len(pairs) |-> pairs[i][1]]
Squeeze(s) == KeptOf(SelectSeq(WithPrevious(s), LAMBDA p : ~(p[1] = " " /\ p[2] = " ")))

NonEmpty(parts) == SelectSeq(parts, LAMBDA t : t # <<>>)

\* SELECT <columns> FROM <target>, without the join clause
SelectFromFragment(q) == Strip(ClauseSql([q.select EXCEPT !.join_clause = EmptyClause]))

FragmentsInOrder(q) ==
    <<SelectFromFragment(q), ClauseSql(q.select.join_clause), ClauseSql(q.where),
      ClauseSql(q.groupby), ClauseSql(q.having), ClauseSql(q.orderby), ClauseSql(q.limit)>>

StartsWith(t, prefix) == Len(t) >= Len(prefix) /\ SubSeq(t, 1, Len(prefix)) = prefix

\* the clause the input asked for renders with its keyword, the one it left out
\* renders as the empty text
FragmentOf(present, text, keyword) ==
    IF present THEN StartsWith(text, keyword) ELSE text = <<>>

FragmentsMatchInput(inp, q) ==
    /\ StartsWith(SelectFromFragment(q), KW.select \o SP)
    /\ FragmentOf(inp.select.join_clause # None, ClauseSql(q.select.join_clause),
                  JOIN_LEFT \o SP \o KW.join)
    /\ FragmentOf(inp.where # None, ClauseSql(q.where), KW.where)
    /\ FragmentOf(inp.groupby # None, ClauseSql(q.groupby), KW.group_by)
    /\ FragmentOf(inp.having # None, ClauseSql(q.having), KW.having)
    /\ FragmentOf(inp.orderby # None, ClauseSql(q.orderby), KW.order_by)
    /\ FragmentOf(inp.limit # None, ClauseSql(q.limit), KW.limit)

C19_RenderOrder ==
    (CompileDone /\ result.err = "") =>
        /\ FragmentsMatchInput(result.inp, result.query)
        /\ Squeeze(result.sql)
                = Squeeze(Join(SP, NonEmpty(FragmentsInOrder(result.query))) \o <<";">>)
        /\ Len(result.sql) >= 2
        /\ result.sql[Len(result.sql)] = ";"
        /\ result.sql[Len(result.sql) - 1] \notin WhiteSpace \cup {";"}
        /\ Cardinality({i \in 1..Len(result.sql) : result.sql[i] = ";"}) = 1

\* only the JOIN and the HAVING clause are present
C19_Witness ==
    /\ CompileDone
    /\ result.inp = Query(SelectClauseInput(<<ById(2)>>, ById(1),
                                            JoinClauseInput(ById(1), TrueCond, JOIN_LEFT)),
                          None, None, HavingClauseInput(ById(3)), None, None)
    /\ result.err = ""
    /\ result.sql = KW.select \o SP \o COL_OX \o SP \o KW.as \o SP \o Quoted(<<"c">>) \o SP
                        \o KW.from \o SP \o TABLE_O \o SP
                        \o JOIN_LEFT \o SP \o KW.join \o SP \o TABLE_O \o SP \o KW.on \o SP
                        \o <<"(", "1", " ", "=", " ", "1", ")">> \o <<" ", " ", " ">>
                        \o KW.having \o SP \o <<"S", "U", "M", "(">> \o COL_OX \o <<")", ";">>

\* C20: the column count of a compiled query is -1 exactly when its SELECT list is
\* the wildcard, and otherwise it is the number of output expressions, one resolved
\* expression for each column the input names.
IsWildcard(columns) == columns = <<AllCols>>

LiteralDone == pc = "done" /\ result.op = "literal_sql"

Doubled(v) == Join(<<>>, [i \in 1..Len(v) |-> IF v[i] = QUOTE THEN <<QUOTE, QUOTE>> ELSE <<v[i]>>])

C21_LiteralRendering ==
    LiteralDone =>
        CASE result.raw.vkind = "str" ->
                result.out = <<QUOTE>> \o Doubled(result.raw.sval) \o <<QUOTE>>
          [] result.raw.vkind = "int" -> result.out = IntToText(result.raw.ival)
          [] result.raw.vkind = "float" ->
                result.out = IntToText(result.raw.whole) \o <<".">> \o IntToText(result.raw.tenths)
          [] result.raw.vkind = "bool" ->
                result.out = (IF result.raw.bval THEN <<"1">> ELSE <<"0">>)

\* C22: a reference is accepted exactly when one of its two fields is set; one with
\* both or neither set is rejected with the cache untouched (no lookup was made),
\* and an accepted one is looked up by the field that was set.
ExactlyOneSet(ref) == ref.id.set # ref.name.set

ReferenceKind(ref) == IF ref.type = "aliased" THEN "alias" ELSE "query"

\* the outcomes of the lookup by the field that is set, over the orders in which
\* the database may scan
LookupBySetField(ref, user, r) ==
    {Fetch(ReferenceKind(ref), IF ref.id.set THEN ref.id.v ELSE 0,
           IF ref.id.set THEN <<>> ELSE ref.name.v, user, r, ord) : ord \in ScanOrders}

C22_ExactlyOneField ==
    /\ (pc = "validated" /\ result.op = "validate") => ExactlyOneSet(result.ref)
    /\ (pc = "done" /\ result.op = "validate") =>
            /\ ~ExactlyOneSet(result.ref)
            /\ redis = result.before
    /\ (pc = "done" /\ result.op = "resolve") =>
            /\ ExactlyOneSet(result.ref)
            /\ \E f \in LookupBySetField(result.ref, result.user, result.before) :
                    /\ f.err = result.err
                    /\ f.redis = redis
                    /\ f.err # "" => f.detail = result.detail
                    /\ f.err = "" =>
                            f.obj = IF result.ref.type = "aliased" THEN result.node.alias
                                    ELSE result.node.query

\* C23: a fetch that finds nothing in the store fails with the does-not-exist
\* condition, its message names the dimension of the lookup (the id when fetched by
\* id, the name when fetched by name), and the cache is left as it was.
NothingInStore ==
    \A ord \in ScanOrders :
        ~(IF result.id # 0 THEN by_id(result.kind, result.id, result.user, ord)
          ELSE by_name(result.kind, result.name, result.user, ord)).found

C23_NotFoundNamesDimension ==
    (FetchDone /\ NothingInStore) =>
        /\ result.err = NotExists(result.kind)
        /\ result.message = (IF result.id # 0 THEN "id" ELSE "name")
        /\ redis = result.before

\* C24: with limit N, the number of wrapped calls executing at the same time never
\* exceeds N, and the used-slots counter never exceeds N.
Running == {t \in Tasks : pc[t] = "run"}

C24_AtMostLimit ==
    /\ Cardinality(Running) <= QueueLimit
    /\ redis.active <= QueueLimit

\* C25: waiters are admitted in the order of their append: when a task has left
\* wait_for_slot with a slot, every task appended before it that has not timed out
\* and was not cancelled left with a slot before it.
AppendedBefore(a, b) == result[a].seq > 0 /\ result[a].seq < result[b].seq

C25_Fifo ==
    \A a, b \in Tasks :
        (/\ result[b].grant > 0
         /\ AppendedBefore(a, b)
         /\ result[a].wait \notin {"timeout", "cancelled"}) =>
            /\ result[a].grant > 0
            /\ result[a].grant < result[b].grant

\* two tasks were in the waiting list together and both hold a slot, admitted in
\* the order of their append
C25_Witness ==
    \E a, b \in Tasks :
        /\ AppendedBefore(a, b)
        /\ result[a].grant = 1
        /\ result[b].grant = 2
        /\ pc[a] = "ended" /\ result[a].decs = 1
        /\ pc[b] = "run"
        /\ \E c \in Tasks : AppendedBefore(c, b) /\ pc[c] = "ended" /\ result[c].wait = "timeout"

\* C29: when a call has ended, on any path, its task is not in the waiting list
\* and its increments of the counter were all decremented; the counter is never
\* negative and is 0 when no call is in progress.
InWaitingList(t) == \E i \in 1..Len(redis.waiting) : redis.waiting[i] = t
InProgress == {t \in Tasks : pc[t] \notin {"idle", "ended"}}

C29_AccountingRestored ==
    /\ \A t \in Tasks :
            pc[t] = "ended" => (~InWaitingList(t) /\ result[t].decs = result[t].incs)
    /\ redis.active >= 0
    /\ InProgress = {} => redis.active = 0

\* C26: at most one call per user executes the wrapped function at a time; a call
\* made while another call of the same user is in progress is refused; and the
\* user's key is absent when no call of the user is between its set and its delete.
RunningFor(user) == {t \in Tasks : pc[t] = "run" /\ result[t].user = user}
Admitted(t) == pc[t] # "idle" /\ (Holding(t) \/ result[t].end \in {"return", "exception"})

C26_OnePerUser ==
    /\ \A user \in Users : Cardinality(RunningFor(user)) <= 1
    /\ \A t \in Tasks : Admitted(t) => ~result[t].overlap
    /\ \A user \in Users :
            (\A t \in Tasks : ~(Holding(t) /\ result[t].user = user)) => user \notin redis

\* C27: with the store left as it is, in every cache state that concurrent fetches
\* and key expiry reach, an id pointer holds a real key whose record, if present, has
\* that id, a name pointer holds a real key whose record has that owner and that
\* name, and a fetch writes a pointer only after the real key the pointer names.
RecordUnder(real) == ValidateJson(real.kind, redis[real].val)

PointerConsistent(k) ==
    /\ redis[k].val.dim = "real"
    /\ redis[k].val.kind = k.kind
    /\ Cached(redis, redis[k].val) =>
            IF k.dim = "id" THEN RecordUnder(redis[k].val)[IdField(k.kind)] = k.id
            ELSE /\ RecordUnder(redis[k].val).owner_id = k.owner_id
                 /\ RecordUnder(redis[k].val)[NameField(k.kind)] = k.name

RealWrittenFirst(l) ==
    \A i \in 1..Len(l.written) :
        l.written[i].dim # "real" =>
            \E j \in 1..(i - 1) : l.written[j] = RealKeyOf(l.kind, l.obj)

C27_PointersConsistent ==
    /\ \A k \in DOMAIN redis : k.dim # "real" => PointerConsistent(k)
    /\ \A r \in Reqs : result[r].op = "fetch" => RealWrittenFirst(result[r])

\* two fetches of the same alias are between their writes, one by id of its owner
\* and one by name of the other user, and the real key has expired under the id
\* pointer
C27_Witness ==
    /\ At(1, "set_name") /\ At(2, "set_id")
    /\ result[1].id = 2 /\ result[1].user = 1
    /\ result[2].name = <<"c">> /\ result[2].user = 2
    /\ Cached(redis, IdPointerKey("alias", 2))
    /\ ~Cached(redis, RealKey("alias", 2, 1, <<"c">>))

\* C28: a fetch that finds the pointer, the record under the real key it names, and
\* the requesting owner in the record returns that record, without a store query
\* and without writing a key or renewing an expiry.
HitBy(r) ==
    /\ At(r, "get_real")
    /\ Cached(redis, result[r].redis_key)
    /\ RecordUnder(result[r].redis_key).owner_id = result[r].user

C28_HitStep ==
    \A r \in Reqs :
        (HitBy(r) /\ pc'[r] # pc[r]) =>
            /\ pc'[r] = "done"
            /\ result'[r].err = ""
            /\ result'[r].obj = RecordUnder(result[r].redis_key)
            /\ ~result'[r].queried
            /\ result'[r].written = <<>>
            /\ redis' = redis

C28_HitIsReadOnly == [][C28_HitStep]_vars

\* a hit on keys that were set some time ago
C28_Witness ==
    /\ At(1, "done")
    /\ result[1].op = "fetch"
    /\ result[1].from = "cache"
    /\ result[1].obj = AliasRow(2, 1, <<"c">>, COL_OX, FALSE, FALSE)
    /\ redis[RealKey("alias", 2, 1, <<"c">>)].age > 0
    /\ ~result[1].queried

\* C30: between a login and the logout of its session, refresh with the refresh
\* token issued for the session answers with a new token pair whose access token
\* get_current_user accepts; after the logout, a request with the access token of
\* the session is rejected as logged out.
RefreshedInSession(c) ==
    /\ pc[c] = "session"
    /\ result[c].op = "refresh"
    /\ result[c].sent.refresh

RequestAfterLogout(c) ==
    /\ pc[c] = "logged_out"
    /\ result[c].op = "whoami"
    /\ ~result[c].sent.refresh

C30_SessionLifecycle ==
    \A c \in Clients :
        /\ RefreshedInSession(c) =>
                /\ result[c].err = ""
                /\ result[c].response # None
                /\ result[c].response.access_token # result[c].sent
                /\ result[c].response.refresh_token # result[c].sent
                /\ get_current_user(redis, result[c].access_token).err = ""
        /\ RequestAfterLogout(c) => result[c].err = "LoggedOutException"

=============================================================================
